---- MODULE Spec2Model ----
(***************************************************************************)
(* A model of the OCR reference language interpretor: the recursive        *)
(* descent parser (src/src/parser.rs) and the tree walking interpretor     *)
(* (src/src/interpretor.rs) with its symbol table, standard input and      *)
(* standard output.                                                        *)
(*                                                                         *)
(* Text (identifiers, string values, standard input and output) is a       *)
(* sequence of one-character strings, so that formatting, parsing and the  *)
(* removal of a character are computed and not assumed.                    *)
(***************************************************************************)
EXTENDS Integers, Sequences, FiniteSets, TLC

VARIABLES
    scenario,       \* the input chosen for this run: a program and standard input
    source,         \* the program text handed to Lexer::new and to Parser::new
    lerr,           \* the LexerError returned by Lexer::lex
    program,        \* the token list handed to Parser::new
    tokens,         \* Lexer::tokens while lexing, then Parser::tokens: the tokens
                    \* the parser has not consumed
    stage,          \* "lex", "lex_error", "parse", "parsed", "parse_error", "run",
                    \* "done", "panic"
    ast,            \* the Node returned by Parser::parse
    perr,           \* the ParserError returned by Parser::parse
    todo,           \* the nodes run_node has still to be called on, in order
    symbol_table,   \* SymbolTable::symbols
    stdin,          \* the characters standard input has still to deliver
    stdout,         \* the characters the interpreted program has written to
                    \* standard output
    diagnostic,     \* the characters main has written for a LexerError or a
                    \* ParserError
    trace,          \* the observable events of the run, in order
    overflow_checks \* whether the build panics on integer overflow (the debug
                    \* profile) or wraps (the release profile)

vars == <<scenario, source, lerr, program, tokens, stage, ast, perr, todo, symbol_table,
          stdin, stdout, diagnostic, trace, overflow_checks>>

----------------------------------------------------------------------------
(* Bounds of the model.                                                    *)

\* the longest operator chain x1 op1 x2 ... has MaxChainOps operators
MaxChainOps == 3

\* the statement lists before and after a nested if or while have up to
\* MaxStatements statements
MaxStatements == 1

\* arrays of 1..MaxArraySize slots are declared
MaxArraySize == 3

\* the longest sequence of index assignments after an array declaration
MaxIndexAssigns == 2

\* standard input holds up to MaxStdin characters
MaxStdin == 3

\* a run is followed for up to MaxTrace events
MaxTrace == 64

\* the longest program text of the symbol characters
MaxSymbolChars == 3

\* the longest program text of quotes, letters, digits, blanks and a
\* character the lexer does not recognise
MaxTextChars == 4

----------------------------------------------------------------------------
(* lib.rs: Num, Value, Display for Value, Op.                              *)

\* pub type Num = u64.  TLC's integers are 32 bits wide, so the unsigned type is
\* modelled at the width NumBits: a Number is in 0..NumModulus-1 and arithmetic
\* overflows at NumModulus as u64's does at 2^64.
NumBits == 8

NumModulus == 2 ^ NumBits

Number(x) == [t |-> "Number", v |-> x]

String(s) == [t |-> "String", v |-> s]

Boolean(b) == [t |-> "Boolean", v |-> b]

Array(a) == [t |-> "Array", v |-> a]

Digit(d) == <<"0", "1", "2", "3", "4", "5", "6", "7", "8", "9">>[d + 1]

\* the decimal digits of x, as u64's Display writes them
RECURSIVE DecimalString(_)
DecimalString(x) ==
    IF x < 10 THEN <<Digit(x)>> ELSE DecimalString(x \div 10) \o <<Digit(x % 10)>>

RECURSIVE Concat(_)
Concat(ss) == IF ss = <<>> THEN <<>> ELSE Head(ss) \o Concat(Tail(ss))

\* one character of a str as its Debug form writes it
EscapeChar(c) ==
    CASE c = "\"" -> <<"\\", "\"">>
      [] c = "\\" -> <<"\\", "\\">>
      [] c = "\n" -> <<"\\", "n">>
      [] c = "\r" -> <<"\\", "r">>
      [] OTHER -> <<c>>

\* #[derive(Debug)] on Value, as Vec<Value>'s {:?} writes each element
RECURSIVE DebugValue(_)
DebugValue(val) ==
    CASE val.t = "Number" ->
           <<"N", "u", "m", "b", "e", "r", "(">> \o DecimalString(val.v) \o <<")">>
      [] val.t = "String" ->
           <<"S", "t", "r", "i", "n", "g", "(", "\"">>
             \o Concat([i \in 1..Len(val.v) |-> EscapeChar(val.v[i])])
             \o <<"\"", ")">>
      [] val.t = "Boolean" ->
           <<"B", "o", "o", "l", "e", "a", "n", "(">>
             \o (IF val.v THEN <<"t", "r", "u", "e">> ELSE <<"f", "a", "l", "s", "e">>)
             \o <<")">>
      [] val.t = "Array" ->
           <<"A", "r", "r", "a", "y", "(", "[">>
             \o Concat([i \in 1..Len(val.v) |->
                          (IF i = 1 THEN <<>> ELSE <<",", " ">>) \o DebugValue(val.v[i])])
             \o <<"]", ")">>

\* impl Display for Value
Display(val) ==
    CASE val.t = "Number" -> DecimalString(val.v)
      [] val.t = "String" -> val.v
      [] val.t = "Boolean" ->
           IF val.v THEN <<"t", "r", "u", "e">> ELSE <<"f", "a", "l", "s", "e">>
      [] val.t = "Array" ->
           <<"[">>
             \o Concat([i \in 1..Len(val.v) |->
                          (IF i = 1 THEN <<>> ELSE <<",", " ">>) \o DebugValue(val.v[i])])
             \o <<"]">>

----------------------------------------------------------------------------
(* lexer.rs: Token and TokenKind.  lib.rs: Position.                       *)

Position(line, col) == [line |-> line, col |-> col]

Token(kind, start, len) == [start |-> start, len |-> len, kind |-> kind]

Ident(name) == [t |-> "Ident", v |-> name]

StringLit(s) == [t |-> "String", v |-> s]

NumberLit(x) == [t |-> "Number", v |-> x]

Keyword(k) == [t |-> "Keyword", v |-> k]

Symbol(s) == [t |-> "Symbol", v |-> s]

\* Parser::parse_from_list: every kind becomes a token at Position(0, 0), len 0
parse_from_list_token(kind) == Token(kind, Position(0, 0), 0)

\* Option<Token>::None
NoToken == Token([t |-> "None", v |-> "None"], Position(0, 0), 0)

IsSymbol(tok, s) == tok.kind.t = "Symbol" /\ tok.kind.v = s

IsKeyword(tok, k) == tok.kind.t = "Keyword" /\ tok.kind.v = k

----------------------------------------------------------------------------
(* ast.rs: Node.                                                           *)

Block(nodes) == [node |-> "Block", nodes |-> nodes]

Assign(ident, value) == [node |-> "Assign", ident |-> ident, value |-> value]

ArrayAssign(ident, size) == [node |-> "ArrayAssign", ident |-> ident, size |-> size]

ArrayAssingIndex(ident, index, value) ==
    [node |-> "ArrayAssingIndex", ident |-> ident, index |-> index, value |-> value]

IfExpr(expr, then, els) == [node |-> "IfExpr", expr |-> expr, then |-> then, els |-> els]

WhileStmt(expr, body) == [node |-> "WhileStmt", expr |-> expr, body |-> body]

FuncCall(ident, args) == [node |-> "FuncCall", ident |-> ident, args |-> args]

VariableRef(ident) == [node |-> "VariableRef", ident |-> ident]

ArrayRef(ident, index) == [node |-> "ArrayRef", ident |-> ident, index |-> index]

BinaryExpr(left, operator, right) ==
    [node |-> "BinaryExpr", left |-> left, operator |-> operator, right |-> right]

DotExpr(left, right) == [node |-> "DotExpr", left |-> left, right |-> right]

Primary(value) == [node |-> "Primary", value |-> value]

\* the node a panicking parse function never returns
NoNode == [node |-> "None"]

----------------------------------------------------------------------------
(* parser.rs: Parser.  The parser's state is the list of tokens not yet    *)
(* consumed (Parser::tokens, which the code keeps reversed and pops from   *)
(* the end: here the next token is the head) and whether a panic has       *)
(* happened (ok = FALSE: an unwrap, expect, panic! or unimplemented!).     *)
(* Every parse function returns the node and the parser state after it.    *)

ParserNew(token_list) == [ts |-> token_list, ok |-> TRUE]

Panicked(p) == [n |-> NoNode, p |-> [p EXCEPT !.ok = FALSE]]

\* self.tokens.pop().unwrap()
get_token(p) ==
    IF p.ok /\ p.ts # <<>>
    THEN [tok |-> Head(p.ts), p |-> [p EXCEPT !.ts = Tail(@)]]
    ELSE [tok |-> NoToken, p |-> [p EXCEPT !.ok = FALSE]]

\* self.tokens.clone().pop()
peek_token(p) == IF p.ts # <<>> THEN Head(p.ts) ELSE NoToken

\* the token after the next one: token_clone.pop() twice, peekpeek.pop() twice
peek_second(p) == IF Len(p.ts) >= 2 THEN p.ts[2] ELSE NoToken

\* the operators parse_expr recognises after its left term
ExprOperator(tok) ==
    CASE IsSymbol(tok, "Plus") -> "Plus"
      [] IsSymbol(tok, "Minus") -> "Minus"
      [] IsSymbol(tok, "Greater") -> "Greater"
      [] IsSymbol(tok, "GreaterEquals") -> "GreaterEqual"
      [] IsSymbol(tok, "Less") -> "Less"
      [] IsSymbol(tok, "LessEquals") -> "LessEqual"
      [] IsSymbol(tok, "DoubleEquals") -> "EqualTo"
      [] OTHER -> "None"

\* the operators parse_term recognises after its left factor
TermOperator(tok) ==
    CASE IsSymbol(tok, "Multiply") -> "Multiply"
      [] IsSymbol(tok, "Divide") -> "Divide"
      [] OTHER -> "None"

\* the one element of a singleton set: The({e(x) : x \in {v}}) is e(x) for the
\* value x of v, computed once
The(singleton) == CHOOSE x \in singleton : TRUE

RECURSIVE parse_expr(_), parse_term(_), parse_factor(_), parse_func_call(_),
          parse_array_ref(_), parse_block_loop(_, _)

parse_dot_expr(p) ==
    LET l == get_token(p)
        dot == get_token(l.p)          \* consume '.'
        r == get_token(dot.p)
    IN  IF ~l.p.ok \/ l.tok.kind.t # "Ident" THEN Panicked(p)
        ELSE IF ~r.p.ok \/ r.tok.kind.t # "Ident" THEN Panicked(r.p)
        ELSE [n |-> DotExpr(l.tok.kind.v, r.tok.kind.v), p |-> r.p]

\* the operator and the right operand that follow the left operand l, the
\* operator being operator unless that is "None"
binary_rest(l, operator) ==
    IF ~l.p.ok \/ operator = "None" THEN l
    ELSE The({ [n |-> BinaryExpr(l.n, operator, right.n), p |-> right.p] :
                 right \in {parse_expr(get_token(l.p).p)} })

parse_expr(p) ==
    The({ binary_rest(l, ExprOperator(peek_token(l.p))) : l \in {parse_term(p)} })

\* parse_term as a conventional grammar has it: the right operand of * and / is
\* a factor, not a whole expression
parse_term_factor_right(p) ==
    The({ IF ~l.p.ok \/ TermOperator(peek_token(l.p)) = "None" THEN l
          ELSE The({ [n |-> BinaryExpr(l.n, TermOperator(peek_token(l.p)), right.n),
                      p |-> right.p] :
                       right \in {parse_factor(get_token(l.p).p)} }) :
            l \in {parse_factor(p)} })

parse_term(p) ==
    The({ binary_rest(l, TermOperator(peek_token(l.p))) : l \in {parse_factor(p)} })

parse_factor(p) ==
    LET token == peek_token(p)
        next == peek_second(p)
    IN  IF ~p.ok \/ p.ts = <<>> THEN Panicked(p)
        ELSE CASE token.kind.t = "Number" ->
                    [n |-> Primary(Number(token.kind.v)), p |-> get_token(p).p]
               [] token.kind.t = "String" ->
                    [n |-> Primary(String(token.kind.v)), p |-> get_token(p).p]
               [] token.kind.t = "Ident" ->
                    IF IsSymbol(next, "LeftBracket") THEN parse_func_call(p)
                    ELSE IF IsSymbol(next, "LeftSqBracket") THEN parse_array_ref(p)
                    ELSE IF IsSymbol(next, "Dot") THEN parse_dot_expr(p)
                    ELSE [n |-> VariableRef(token.kind.v), p |-> get_token(p).p]
               [] IsSymbol(token, "LeftBracket") ->
                    \* consume end bracket, whatever it is
                    The({ [n |-> expr.n, p |-> get_token(expr.p).p] :
                            expr \in {parse_expr(get_token(p).p)} })
               [] OTHER -> Panicked(p)

parse_arg(p) == IF ~p.ok \/ p.ts = <<>> THEN Panicked(p) ELSE parse_expr(p)

parse_func_call(p) ==
    LET token == get_token(p)
        open == get_token(token.p)
    IN  IF ~token.p.ok \/ token.tok.kind.t # "Ident" THEN Panicked(p)
        ELSE IF ~open.p.ok \/ ~IsSymbol(open.tok, "LeftBracket") THEN Panicked(open.p)
        ELSE IF open.p.ts = <<>> THEN Panicked(open.p)
        ELSE IF IsSymbol(peek_token(open.p), "RightBracket")
        THEN [n |-> FuncCall(token.tok.kind.v, <<>>), p |-> get_token(open.p).p]
        ELSE The({ [n |-> FuncCall(token.tok.kind.v, <<arg.n>>),
                    p |-> get_token(arg.p).p] :      \* consume final bracket
                     arg \in {parse_arg(open.p)} })

parse_assign(p) ==
    LET token == get_token(p)
        eq == get_token(token.p)       \* consume '='
    IN  IF ~token.p.ok \/ token.tok.kind.t # "Ident" THEN Panicked(p)
        ELSE IF ~eq.p.ok \/ eq.p.ts = <<>> THEN Panicked(eq.p)
        ELSE The({ [n |-> Assign(token.tok.kind.v, expr.n), p |-> expr.p] :
                     expr \in {parse_expr(eq.p)} })

\* parse_array_assign_ind once the index has been parsed
array_assign_ind_value(ident, index) ==
    LET close == get_token(index.p)    \* consume '['
        eq == get_token(close.p)
    IN  IF ~eq.p.ok \/ ~IsSymbol(eq.tok, "Equals") THEN Panicked(eq.p)
        ELSE The({ [n |-> ArrayAssingIndex(ident, index.n, value.n), p |-> value.p] :
                     value \in {parse_expr(eq.p)} })

parse_array_assign_ind(p) ==
    LET token == get_token(p)
        open == get_token(token.p)
    IN  IF ~token.p.ok \/ token.tok.kind.t # "Ident" THEN Panicked(p)
        ELSE IF ~open.p.ok \/ ~IsSymbol(open.tok, "LeftSqBracket") THEN Panicked(open.p)
        ELSE The({ array_assign_ind_value(token.tok.kind.v, index) :
                     index \in {parse_expr(open.p)} })

\* parse_array without its last get_token: nothing is consumed after the size
\* expression
parse_array_stops_after_size(p) ==
    LET kw == get_token(p)
        ident == get_token(kw.p)
        open == get_token(ident.p)
    IN  IF ~ident.p.ok \/ ident.tok.kind.t # "Ident" THEN Panicked(p)
        ELSE IF ~open.p.ok \/ ~IsSymbol(open.tok, "LeftSqBracket") THEN Panicked(open.p)
        ELSE The({ [n |-> ArrayAssign(ident.tok.kind.v, size.n), p |-> size.p] :
                     size \in {parse_expr(open.p)} })

parse_array(p) ==
    LET kw == get_token(p)             \* consume 'array'
        ident == get_token(kw.p)
        open == get_token(ident.p)
    IN  IF ~ident.p.ok \/ ident.tok.kind.t # "Ident" THEN Panicked(p)
        ELSE IF ~open.p.ok \/ ~IsSymbol(open.tok, "LeftSqBracket") THEN Panicked(open.p)
        ELSE The({ [n |-> ArrayAssign(ident.tok.kind.v, size.n),
                    p |-> get_token(size.p).p] :     \* consume final '['
                     size \in {parse_expr(open.p)} })

parse_array_ref(p) ==
    LET ident == get_token(p)
        open == get_token(ident.p)
    IN  IF ~ident.p.ok \/ ident.tok.kind.t # "Ident" THEN Panicked(p)
        ELSE IF ~open.p.ok \/ ~IsSymbol(open.tok, "LeftSqBracket") THEN Panicked(open.p)
        ELSE The({ [n |-> ArrayRef(ident.tok.kind.v, index.n),
                    p |-> get_token(index.p).p] :    \* consume final ']'
                     index \in {parse_expr(open.p)} })

\* Result<Node, ParserError> of parse_block, and the parser state after it
BlockOk(nodes, p) == [res |-> "Ok", n |-> Block(nodes), err |-> NoToken, p |-> p]

BlockErr(token, p) == [res |-> "Err", n |-> NoNode, err |-> token, p |-> p]

BlockPanic(p) == [res |-> "Panic", n |-> NoNode, err |-> NoToken, p |-> [p EXCEPT !.ok = FALSE]]

parse_block(p) == parse_block_loop(p, <<>>)

\* parse_if once the then block has been parsed: the token after it decides
\* whether an else block is parsed
if_else(expr, then) ==
    LET after == get_token(then.p)
    IN  IF then.res # "Ok" THEN Panicked(then.p)
        ELSE IF ~after.p.ok THEN Panicked(after.p)
        ELSE IF IsKeyword(after.tok, "Else")
        THEN The({ IF els.res # "Ok" THEN Panicked(els.p)
                   ELSE [n |-> IfExpr(expr.n, then.n, els.n), p |-> els.p] :
                     els \in {parse_block(after.p)} })
        ELSE [n |-> IfExpr(expr.n, then.n, Block(<<>>)), p |-> after.p]

\* parse_if once the condition has been parsed
if_then(expr) ==
    LET then_kw == get_token(expr.p)   \* consume "then"
    IN  IF ~then_kw.p.ok THEN Panicked(then_kw.p)
        ELSE The({ if_else(expr, then) : then \in {parse_block(then_kw.p)} })

parse_if(p) ==
    \* consume "if"
    The({ if_then(expr) : expr \in {parse_expr(get_token(p).p)} })

\* parse_while once the condition has been parsed
while_body(expr) ==
    IF ~expr.p.ok THEN Panicked(expr.p)
    ELSE The({ IF body.res # "Ok" THEN Panicked(body.p)
               ELSE [n |-> WhileStmt(expr.n, body.n),
                     p |-> get_token(body.p).p] :    \* consume "endwhile"
                 body \in {parse_block(expr.p)} })

parse_while(p) ==
    \* consume "while"
    The({ while_body(expr) : expr \in {parse_expr(get_token(p).p)} })

\* the statement parse_block's match pushes for the next token, when it pushes one
parse_statement(p) ==
    LET token == peek_token(p)
        second == peek_second(p)
    IN  CASE token.kind.t = "Ident" ->
               IF second.kind.t = "None" THEN Panicked(p)
               ELSE IF IsSymbol(second, "Equals") THEN parse_assign(p)
               ELSE IF IsSymbol(second, "LeftBracket") THEN parse_func_call(p)
               ELSE IF IsSymbol(second, "LeftSqBracket") THEN parse_array_assign_ind(p)
               ELSE IF IsSymbol(second, "Dot") THEN parse_dot_expr(p)
               ELSE Panicked(p)
          [] IsKeyword(token, "Array") -> parse_array(p)
          [] IsKeyword(token, "If") -> parse_if(p)
          [] IsKeyword(token, "While") -> parse_while(p)

\* the while loop of parse_block, nodes being the statements pushed so far
parse_block_loop(p, nodes) ==
    LET token == peek_token(p)
    IN  IF ~p.ok THEN BlockPanic(p)
        ELSE IF p.ts = <<>> THEN BlockOk(nodes, p)
        ELSE IF \/ token.kind.t = "Ident"
                \/ IsKeyword(token, "Array")
                \/ IsKeyword(token, "If")
                \/ IsKeyword(token, "While")
        THEN The({ IF stmt.p.ok THEN parse_block_loop(stmt.p, Append(nodes, stmt.n))
                   ELSE BlockPanic(stmt.p) :
                     stmt \in {parse_statement(p)} })
        ELSE IF \/ IsKeyword(token, "EndIf")
                \/ IsKeyword(token, "EndWhile")
                \/ IsKeyword(token, "Else")
        THEN BlockOk(nodes, p)
        ELSE BlockErr(token, p)

\* Parser::new followed by Parser::parse
parse(token_list) == parse_block(ParserNew(token_list))

----------------------------------------------------------------------------
(* symbol_table.rs: SymbolTable, a map from identifier to Value.           *)

\* SymbolTable::new
SymbolTableNew == <<>>

\* SymbolTable::assign_variable: HashMap::insert
assign_variable(symbols, ident, value) ==
    [x \in (DOMAIN symbols) \cup {ident} |-> IF x = ident THEN value ELSE symbols[x]]

\* whether SymbolTable::get_variable's unwrap succeeds
is_bound(symbols, ident) == ident \in DOMAIN symbols

----------------------------------------------------------------------------
(* interpretor.rs: Interpretor.  The machine an evaluation acts on is the  *)
(* symbol table, the rest of standard input, the text written to standard  *)
(* output and the trace of events; ok = FALSE once a panic has happened.   *)
(* Every evaluation returns a value (None where the code returns nothing)  *)
(* and the machine after it.                                               *)

None == [t |-> "None", v |-> "None"]

Return(val, m) == [v |-> val, m |-> m]

Panic(m) == [v |-> None, m |-> [m EXCEPT !.ok = FALSE]]

\* print! and println!: text reaches standard output
Write(m, text) ==
    [m EXCEPT !.stdout = @ \o text,
              !.trace = Append(@, [e |-> "write", text |-> text])]

\* the number of characters io::stdin().read_line takes: up to and including
\* the first newline, or everything that is left
RECURSIVE LineLength(_)
LineLength(chars) ==
    IF chars = <<>> THEN 0
    ELSE IF Head(chars) = "\n" THEN 1
    ELSE 1 + LineLength(Tail(chars))

\* String::pop: the string without its last character
Pop(chars) == IF chars = <<>> THEN <<>> ELSE SubSeq(chars, 1, Len(chars) - 1)

DigitValue(c) ==
    CASE c = "0" -> 0 [] c = "1" -> 1 [] c = "2" -> 2 [] c = "3" -> 3 [] c = "4" -> 4
      [] c = "5" -> 5 [] c = "6" -> 6 [] c = "7" -> 7 [] c = "8" -> 8 [] c = "9" -> 9
      [] OTHER -> -1

\* the digits of str::parse::<Num>, most significant first, acc being the value
\* so far; -1 when a character is no digit or the value does not fit
RECURSIVE ParseDigits(_, _)
ParseDigits(chars, acc) ==
    IF chars = <<>> THEN acc
    ELSE IF DigitValue(Head(chars)) < 0 THEN -1
    ELSE IF acc * 10 + DigitValue(Head(chars)) >= NumModulus THEN -1
    ELSE ParseDigits(Tail(chars), acc * 10 + DigitValue(Head(chars)))

\* str::parse::<Num>: an optional '+' and at least one digit; -1 is Err
ParseNum(chars) ==
    LET digits == IF chars # <<>> /\ Head(chars) = "+" THEN Tail(chars) ELSE chars
    IN  IF digits = <<>> THEN -1 ELSE ParseDigits(digits, 0)

\* x.parse().unwrap()
CastParse(chars, m) ==
    IF ParseNum(chars) < 0 THEN Panic(m) ELSE Return(Number(ParseNum(chars)), m)

\* the arithmetic of run_expr on two Numbers: an overflow panics where the build
\* checks for it and wraps where it does not; a zero divisor always panics
Arithmetic(op, x, y, m) ==
    LET exact == CASE op = "Plus" -> x + y
                   [] op = "Minus" -> x - y
                   [] op = "Multiply" -> x * y
                   [] op = "Divide" -> IF y = 0 THEN 0 ELSE x \div y
                   [] op = "Mod" -> IF y = 0 THEN 0 ELSE x % y
    IN  IF op \in {"Divide", "Mod"} /\ y = 0 THEN Panic(m)
        ELSE IF exact \in 0..(NumModulus - 1) THEN Return(Number(exact), m)
        ELSE IF overflow_checks THEN Panic(m)
        ELSE Return(Number(exact % NumModulus), m)

\* Interpretor::concat
concat(lvalue, rvalue, m) == Return(String(Display(lvalue) \o Display(rvalue)), m)

\* run_expr's match with Less computed as LessEqual
run_expr_match_less_or_equal(lvalue, op, rvalue, m) ==
    IF lvalue.t = "Number" /\ rvalue.t = "Number"
    THEN CASE op \in {"Plus", "Minus", "Multiply", "Divide", "Mod"} ->
                Arithmetic(op, lvalue.v, rvalue.v, m)
           [] op = "EqualTo" -> Return(Boolean(lvalue.v = rvalue.v), m)
           [] op = "Less" -> Return(Boolean(lvalue.v <= rvalue.v), m)
           [] op = "LessEqual" -> Return(Boolean(lvalue.v <= rvalue.v), m)
           [] op = "Greater" -> Return(Boolean(lvalue.v > rvalue.v), m)
           [] op = "GreaterEqual" -> Return(Boolean(lvalue.v >= rvalue.v), m)
           [] OTHER -> Panic(m)
    ELSE IF "String" \in {lvalue.t, rvalue.t} /\ lvalue.t \in {"Number", "String"}
    THEN concat(lvalue, rvalue, m)
    ELSE Panic(m)

\* run_expr's match with a Boolean operand of a Number counted as 1 or 0
\* instead of a panic
run_expr_match_boolean_as_number(lvalue, op, rvalue, m) ==
    IF lvalue.t = "Number" /\ rvalue.t = "Boolean"
    THEN Return(Number(lvalue.v + (IF rvalue.v THEN 1 ELSE 0)), m)
    ELSE IF lvalue.t = "Number" /\ rvalue.t = "Number"
    THEN CASE op \in {"Plus", "Minus", "Multiply", "Divide", "Mod"} ->
                Arithmetic(op, lvalue.v, rvalue.v, m)
           [] op = "EqualTo" -> Return(Boolean(lvalue.v = rvalue.v), m)
           [] op = "Less" -> Return(Boolean(lvalue.v < rvalue.v), m)
           [] op = "LessEqual" -> Return(Boolean(lvalue.v <= rvalue.v), m)
           [] op = "Greater" -> Return(Boolean(lvalue.v > rvalue.v), m)
           [] op = "GreaterEqual" -> Return(Boolean(lvalue.v >= rvalue.v), m)
           [] OTHER -> Panic(m)
    ELSE IF "String" \in {lvalue.t, rvalue.t} /\ lvalue.t \in {"Number", "String"}
    THEN concat(lvalue, rvalue, m)
    ELSE Panic(m)

\* the match of run_expr on the two operand values
run_expr_match(lvalue, op, rvalue, m) ==
    CASE lvalue.t = "Number" ->
           (CASE rvalue.t = "Number" ->
                   (CASE op \in {"Plus", "Minus", "Multiply", "Divide", "Mod"} ->
                           Arithmetic(op, lvalue.v, rvalue.v, m)
                      [] op = "EqualTo" -> Return(Boolean(lvalue.v = rvalue.v), m)
                      [] op = "Less" -> Return(Boolean(lvalue.v < rvalue.v), m)
                      [] op = "LessEqual" -> Return(Boolean(lvalue.v <= rvalue.v), m)
                      [] op = "Greater" -> Return(Boolean(lvalue.v > rvalue.v), m)
                      [] op = "GreaterEqual" -> Return(Boolean(lvalue.v >= rvalue.v), m)
                      [] OTHER -> Panic(m))
              [] rvalue.t = "String" -> concat(lvalue, rvalue, m)
              [] OTHER -> Panic(m))
      [] lvalue.t = "String" -> concat(lvalue, rvalue, m)
      [] OTHER -> Panic(m)

\* self.symbol_table.get_variable(ident): the unwrap panics on an unbound ident
get_variable(ident, m) ==
    IF is_bound(m.sym, ident) THEN Return(m.sym[ident], m) ELSE Panic(m)

\* vec[numeric_index as usize].clone()
index_array(vec, numeric_index, m) ==
    IF numeric_index < Len(vec) THEN Return(vec[numeric_index + 1], m) ELSE Panic(m)

\* builtin_input after the prompt: read_line, input.pop(), Value::String(input)
read_input(m) ==
    LET n == LineLength(m.stdin)
        input == SubSeq(m.stdin, 1, n)
        after == [m EXCEPT !.stdin = SubSeq(@, n + 1, Len(@)),
                           !.trace = Append(@, [e |-> "read", text |-> input])]
    IN  Return(String(Pop(input)), after)

RECURSIVE get_expr_val(_, _), run_expr(_, _), run_func(_, _), get_array_ref(_, _),
          builtin_print(_, _), builtin_input(_, _), builtin_casti(_, _)

\* Interpretor::builtin_length
builtin_length(ident, m) ==
    LET symbol == get_variable(ident, m)
    IN  IF ~symbol.m.ok THEN symbol
        ELSE IF symbol.v.t # "Array" THEN Panic(m)
        ELSE Return(Number(Len(symbol.v.v)), m)

\* Interpretor::run_dot_expr
run_dot_expr(node, m) ==
    IF node.node # "DotExpr" THEN Panic(m)
    ELSE IF node.right = <<"l", "e", "n", "g", "t", "h">> THEN builtin_length(node.left, m)
    ELSE Panic(m)

\* run_expr once the left operand has its value: the right operand, and the match
run_expr_right(node, lvalue) ==
    IF ~lvalue.m.ok THEN lvalue
    ELSE The({ IF ~rvalue.m.ok THEN rvalue
               ELSE run_expr_match(lvalue.v, node.operator, rvalue.v, rvalue.m) :
                 rvalue \in {get_expr_val(node.right, lvalue.m)} })

\* run_expr with the right operand evaluated before the left one
run_expr_right_first(node, m) ==
    IF node.node # "BinaryExpr" THEN Panic(m)
    ELSE The({ IF ~rvalue.m.ok THEN rvalue
               ELSE The({ IF ~lvalue.m.ok THEN lvalue
                          ELSE run_expr_match(lvalue.v, node.operator, rvalue.v,
                                              lvalue.m) :
                            lvalue \in {get_expr_val(node.left, rvalue.m)} }) :
                 rvalue \in {get_expr_val(node.right, m)} })

\* Interpretor::run_expr
run_expr(node, m) ==
    IF node.node # "BinaryExpr" THEN Panic(m)
    ELSE The({ run_expr_right(node, lvalue) : lvalue \in {get_expr_val(node.left, m)} })

\* Option<Value>::unwrap and expect on what run_func returns
unwrap(ret) == IF ret.m.ok /\ ret.v.t = "None" THEN Panic(ret.m) ELSE ret

\* Interpretor::get_expr_val
get_expr_val(node, m) ==
    CASE node.node = "BinaryExpr" -> run_expr(node, m)
      [] node.node = "VariableRef" -> get_variable(node.ident, m)
      [] node.node = "ArrayRef" -> get_array_ref(node, m)
      [] node.node = "FuncCall" -> The({ unwrap(ret) : ret \in {run_func(node, m)} })
      [] node.node = "DotExpr" -> run_dot_expr(node, m)
      [] node.node = "Primary" -> Return(node.value, m)
      [] OTHER -> Panic(m)

\* get_array_ref once the index has its value
array_ref_element(ident, index) ==
    LET symbol == get_variable(ident, index.m)
    IN  IF ~index.m.ok THEN index
        ELSE IF index.v.t # "Number" THEN Panic(index.m)
        ELSE IF ~symbol.m.ok THEN symbol
        ELSE IF symbol.v.t # "Array" THEN Panic(symbol.m)
        ELSE index_array(symbol.v.v, index.v.v, symbol.m)

\* Interpretor::get_array_ref
get_array_ref(node, m) ==
    IF node.node # "ArrayRef" THEN Panic(m)
    ELSE The({ array_ref_element(node.ident, index) :
                 index \in {get_expr_val(node.index, m)} })

\* print_line with print! for println!: no newline ends the line
print_line_no_newline(to_print) ==
    IF ~to_print.m.ok THEN to_print
    ELSE Return(None, Write(to_print.m, Display(to_print.v)))

\* println!("{}", to_print)
print_line(to_print) ==
    IF ~to_print.m.ok THEN to_print
    ELSE Return(None, Write(to_print.m, Display(to_print.v) \o <<"\n">>))

\* Interpretor::builtin_print
builtin_print(args, m) ==
    IF Len(args) = 0 THEN Return(None, Write(m, <<"\n">>))
    ELSE IF Len(args) > 1 THEN Panic(m)
    ELSE The({ print_line(to_print) : to_print \in {get_expr_val(args[1], m)} })

\* print!("{}", x) of builtin_input, then the read
prompt_and_read(x) ==
    IF ~x.m.ok THEN x ELSE read_input(Write(x.m, Display(x.v)))

\* Interpretor::builtin_input
builtin_input(args, m) ==
    IF Len(args) > 1 THEN Panic(m)
    ELSE IF Len(args) = 0 THEN read_input(m)
    ELSE CASE args[1].node = "Primary" -> prompt_and_read(Return(args[1].value, m))
           [] args[1].node = "BinaryExpr" ->
                The({ prompt_and_read(expr) : expr \in {run_expr(args[1], m)} })
           [] args[1].node = "VariableRef" ->
                prompt_and_read(get_variable(args[1].ident, m))
           [] OTHER -> Panic(m)

\* the match of builtin_casti on a value that has to be a String
cast_string(x) ==
    IF ~x.m.ok THEN x
    ELSE IF x.v.t = "String" THEN CastParse(x.v.v, x.m)
    ELSE Panic(x.m)

\* Interpretor::builtin_casti
builtin_casti(args, m) ==
    IF Len(args) # 1 THEN Panic(m)
    ELSE CASE args[1].node = "Primary" ->
                IF args[1].value.t = "String" THEN CastParse(args[1].value.v, m)
                ELSE Panic(m)
           [] args[1].node = "VariableRef" -> cast_string(get_variable(args[1].ident, m))
           [] args[1].node = "FuncCall" ->
                The({ cast_string(unwrap(ret)) : ret \in {run_func(args[1], m)} })
           [] OTHER -> Panic(m)

\* Interpretor::run_func
run_func(node, m) ==
    IF node.node # "FuncCall" THEN Panic(m)
    ELSE CASE node.ident = <<"p", "r", "i", "n", "t">> -> builtin_print(node.args, m)
           [] node.ident = <<"i", "n", "p", "u", "t">> -> builtin_input(node.args, m)
           [] node.ident = <<"i", "n", "t">> -> builtin_casti(node.args, m)
           [] OTHER -> Panic(m)

\* self.symbol_table.assign_variable(ident, rvalue) with the value just computed
assign_result(ident, rvalue) ==
    IF ~rvalue.m.ok THEN rvalue
    ELSE Return(None,
                [rvalue.m EXCEPT
                    !.sym = assign_variable(@, ident, rvalue.v),
                    !.trace = Append(@, [e |-> "assign", ident |-> ident,
                                         value |-> rvalue.v])])

\* Interpretor::run_assign
run_assign(node, m) ==
    LET rexpr == node.value
    IN  CASE rexpr.node = "BinaryExpr" ->
               The({ assign_result(node.ident, rvalue) : rvalue \in {run_expr(rexpr, m)} })
          [] rexpr.node = "VariableRef" ->
               The({ assign_result(node.ident, rvalue) :
                       rvalue \in {get_expr_val(rexpr, m)} })
          [] rexpr.node = "ArrayRef" ->
               The({ assign_result(node.ident, rvalue) :
                       rvalue \in {get_array_ref(rexpr, m)} })
          [] rexpr.node = "DotExpr" ->
               The({ assign_result(node.ident, rvalue) :
                       rvalue \in {run_dot_expr(rexpr, m)} })
          [] rexpr.node = "FuncCall" ->
               The({ assign_result(node.ident, unwrap(rvalue)) :
                       rvalue \in {run_func(rexpr, m)} })
          [] rexpr.node = "Primary" -> assign_result(node.ident, Return(rexpr.value, m))
          [] OTHER -> Panic(m)

\* run_array_assign once the size has its value
array_of_zeros(ident, size) ==
    IF ~size.m.ok THEN size
    ELSE IF size.v.t # "Number" THEN Panic(size.m)
    ELSE assign_result(ident, Return(Array([i \in 1..size.v.v |-> Number(0)]), size.m))

\* Interpretor::run_array_assign
run_array_assign(node, m) ==
    The({ array_of_zeros(node.ident, size) : size \in {get_expr_val(node.size, m)} })

\* array_store without the write-back: the copy is changed and never rebound
array_store_no_write_back(ident, index, value) ==
    LET symbol == get_variable(ident, value.m)
    IN  IF ~value.m.ok THEN value
        ELSE IF ~symbol.m.ok THEN symbol
        ELSE IF symbol.v.t # "Array" THEN Panic(symbol.m)
        ELSE IF index.v.v >= Len(symbol.v.v) THEN Panic(symbol.m)
        ELSE Return(None, symbol.m)

\* array_store on arrays that are shared rather than copied: every identifier
\* bound to the array sees the slot change
array_store_shared(ident, index, value) ==
    LET symbol == get_variable(ident, value.m)
        vec == symbol.v.v
    IN  IF ~value.m.ok THEN value
        ELSE IF ~symbol.m.ok THEN symbol
        ELSE IF symbol.v.t # "Array" THEN Panic(symbol.m)
        ELSE IF index.v.v >= Len(vec) THEN Panic(symbol.m)
        ELSE Return(None,
                    [symbol.m EXCEPT
                       !.sym = [id \in DOMAIN @ |->
                                  IF @[id] = symbol.v
                                  THEN Array([vec EXCEPT ![index.v.v + 1] = value.v])
                                  ELSE @[id]]])

\* run_array_assign_ind once the index and the value have their values
\* array_store on a vector that grows to hold the index: zeros fill the slots
\* up to it
array_store_growing(ident, index, value) ==
    LET symbol == get_variable(ident, value.m)
        vec == symbol.v.v
    IN  IF ~value.m.ok THEN value
        ELSE IF ~symbol.m.ok THEN symbol
        ELSE IF symbol.v.t # "Array" THEN Panic(symbol.m)
        ELSE assign_result(ident,
                           Return(Array([k \in 1..(IF index.v.v >= Len(vec)
                                                   THEN index.v.v + 1 ELSE Len(vec)) |->
                                           IF k = index.v.v + 1 THEN value.v
                                           ELSE IF k <= Len(vec) THEN vec[k]
                                           ELSE Number(0)]),
                                  symbol.m))

array_store(ident, index, value) ==
    LET symbol == get_variable(ident, value.m)
        vec == symbol.v.v
    IN  IF ~value.m.ok THEN value
        ELSE IF ~symbol.m.ok THEN symbol
        ELSE IF symbol.v.t # "Array" THEN Panic(symbol.m)
        ELSE IF index.v.v >= Len(vec) THEN Panic(symbol.m)
        ELSE assign_result(ident,
                           Return(Array([vec EXCEPT ![index.v.v + 1] = value.v]), symbol.m))

\* run_array_assign_ind once the index has its value
array_store_value(node, index) ==
    IF ~index.m.ok THEN index
    ELSE IF index.v.t # "Number" THEN Panic(index.m)
    ELSE The({ array_store(node.ident, index, value) :
                 value \in {get_expr_val(node.value, index.m)} })

\* Interpretor::run_array_assign_ind
run_array_assign_ind(node, m) ==
    The({ array_store_value(node, index) : index \in {get_expr_val(node.index, m)} })

\* the match of evaluate_condition and of run_if on the condition's value: v is the bool
condition_value(cond) ==
    IF ~cond.m.ok THEN cond
    ELSE IF cond.v.t # "Boolean" THEN Panic(cond.m)
    ELSE Return(cond.v.v, cond.m)

\* Interpretor::evaluate_condition
evaluate_condition(expr, m) ==
    The({ IF ~cond.m.ok THEN cond
          ELSE Return(cond.v,
                      [cond.m EXCEPT
                          !.trace = Append(@, [e |-> "condition", value |-> cond.v])]) :
            cond \in {condition_value(The({c : c \in {run_expr(expr, m)}}))} })

----------------------------------------------------------------------------
(* lexer.rs: Lexer.  input holds the characters that are still to pop, the *)
(* next one first (the code keeps them reversed and pops from the end);    *)
(* res is "Ok" while lex goes on or has returned Ok(()), "Err" when it has *)
(* returned a LexerError and "Panic" when it has panicked.  The text is    *)
(* ASCII: is_numeric and is_alphanumeric are the ASCII digits and letters. *)

\* the '\0' peek_char returns when no character is left
Nul == "NUL"

DigitChars == {"0", "1", "2", "3", "4", "5", "6", "7", "8", "9"}

LetterChars ==
    {"a", "b", "c", "d", "e", "f", "g", "h", "i", "j", "k", "l", "m", "n", "o", "p", "q",
     "r", "s", "t", "u", "v", "w", "x", "y", "z",
     "A", "B", "C", "D", "E", "F", "G", "H", "I", "J", "K", "L", "M", "N", "O", "P", "Q",
     "R", "S", "T", "U", "V", "W", "X", "Y", "Z"}

\* the character e with an acute accent: alphabetic, outside 'a'..='z' and
\* 'A'..='Z', and two bytes long in a String
EAcute == "U+00E9"

\* char::len_utf8 and String::len: the number of bytes
len_utf8(c) == IF c = EAcute THEN 2 ELSE 1

RECURSIVE byte_len(_)
byte_len(chars) == IF chars = <<>> THEN 0 ELSE len_utf8(Head(chars)) + byte_len(Tail(chars))

\* the characters of lex's symbol arm
SymbolChars == {"=", "<", ">", "+", "-", "*", "/", "%"}

UnrecognisedCharacter(c, position, input_og) ==
    [c |-> c, position |-> position, input |-> input_og]

\* lex has returned no LexerError
NoLexerError == UnrecognisedCharacter(Nul, Position(0, 0), <<>>)

\* Lexer::new
LexerNew(text) ==
    [input |-> text, input_og |-> text, position |-> Position(1, 0), tokens |-> <<>>,
     res |-> "Ok", err |-> NoLexerError]

\* Lexer::peek_char
peek_char(lx) == IF lx.input = <<>> THEN Nul ELSE Head(lx.input)

\* Lexer::panic_pop, the character popped being peek_char before it
panic_pop(lx) ==
    IF lx.input = <<>> THEN [lx EXCEPT !.res = "Panic"]
    ELSE [lx EXCEPT !.input = Tail(@), !.position.col = @ + 1]

\* k calls of panic_pop on characters that are there
pop_run(lx, k) ==
    [lx EXCEPT !.input = SubSeq(@, k + 1, Len(@)), !.position.col = @ + k]

\* push_symbol, push_string, push_number, push_keyword, push_ident
push_token(lx, kind, start, len) ==
    [lx EXCEPT !.tokens = Append(@, Token(kind, start, len))]

\* Position::new(self.position.line, self.position.col - 1)
start_pos(lx) == Position(lx.position.line, lx.position.col - 1)

\* the arms of symbol for a second character '='
DualSymbol(first) ==
    CASE first = "=" -> "DoubleEquals"
      [] first = ">" -> "GreaterEquals"
      [] first = "<" -> "LessEquals"
      [] first = "+" -> "PlusEqual"
      [] first = "-" -> "MinusEqual"
      [] OTHER -> "None"

\* the arms of symbol for a second character ' '
SingleSymbol(first) ==
    CASE first = "=" -> "Equals"
      [] first = ">" -> "Greater"
      [] first = "<" -> "Less"
      [] first = "+" -> "Plus"
      [] first = "-" -> "Minus"
      [] first = "*" -> "Multiply"
      [] first = "/" -> "Divide"
      [] first = "%" -> "Mod"

\* symbol looking at its first character only
symbol_ignoring_second(lx, first, second) ==
    push_token(lx, Symbol(SingleSymbol(first)), start_pos(lx), 1)

\* Lexer::symbol; second is '=' or ' '
symbol(lx, first, second) ==
    IF second = "="
    THEN IF DualSymbol(first) = "None" THEN [lx EXCEPT !.res = "Panic"]
         ELSE push_token(lx, Symbol(DualSymbol(first)), start_pos(lx), 2)
    ELSE push_token(lx, Symbol(SingleSymbol(first)), start_pos(lx), 1)

\* the number of characters a while loop pops that goes on while peek_char is
\* one of the characters of go
RunOf(chars, go) ==
    CHOOSE k \in 0..Len(chars) :
        /\ \A i \in 1..k : chars[i] \in go
        /\ k = Len(chars) \/ chars[k + 1] \notin go

\* the number of characters a while loop pops that goes on until peek_char is
\* one of the characters of stop, or no character is left
RunUntil(chars, stop) ==
    CHOOSE k \in 0..Len(chars) :
        /\ \A i \in 1..k : chars[i] \notin stop
        /\ k = Len(chars) \/ chars[k + 1] \in stop

\* Lexer::string
string(lx) ==
    LET k == RunUntil(lx.input, {"\"", Nul})
        popped == pop_run(lx, k)
    IN  IF popped.input = <<>> THEN panic_pop(popped)
        ELSE push_token(panic_pop(popped), StringLit(SubSeq(lx.input, 1, k)),
                        start_pos(lx), byte_len(SubSeq(lx.input, 1, k)) + 2)

\* Lexer::numeric
numeric(lx, start) ==
    LET k == RunOf(lx.input, DigitChars)
        strnum == <<start>> \o SubSeq(lx.input, 1, k)
    IN  IF ParseDigits(strnum, 0) < 0 THEN [pop_run(lx, k) EXCEPT !.res = "Panic"]
        ELSE push_token(pop_run(lx, k), NumberLit(ParseDigits(strnum, 0)),
                        start_pos(lx), Len(strnum))

\* the keywords of ident_or_keyword and then
keyword_of_with_then(ident) ==
    CASE ident = <<"d", "o">> -> "Do"
      [] ident = <<"w", "h", "i", "l", "e">> -> "While"
      [] ident = <<"e", "n", "d", "w", "h", "i", "l", "e">> -> "EndWhile"
      [] ident = <<"i", "f">> -> "If"
      [] ident = <<"t", "h", "e", "n">> -> "Then"
      [] ident = <<"e", "l", "s", "e">> -> "Else"
      [] ident = <<"e", "n", "d", "i", "f">> -> "EndIf"
      [] ident = <<"b", "r", "e", "a", "k">> -> "Break"
      [] ident = <<"a", "r", "r", "a", "y">> -> "Array"
      [] OTHER -> "None"

\* the keywords of ident_or_keyword
KeywordOf(ident) ==
    CASE ident = <<"d", "o">> -> "Do"
      [] ident = <<"w", "h", "i", "l", "e">> -> "While"
      [] ident = <<"e", "n", "d", "w", "h", "i", "l", "e">> -> "EndWhile"
      [] ident = <<"i", "f">> -> "If"
      [] ident = <<"e", "l", "s", "e">> -> "Else"
      [] ident = <<"e", "n", "d", "i", "f">> -> "EndIf"
      [] ident = <<"b", "r", "e", "a", "k">> -> "Break"
      [] ident = <<"a", "r", "r", "a", "y">> -> "Array"
      [] OTHER -> "None"

\* Lexer::ident_or_keyword
ident_or_keyword(lx, first) ==
    LET k == RunOf(lx.input, LetterChars \cup DigitChars \cup {EAcute, "_"})
        ident == <<first>> \o SubSeq(lx.input, 1, k)
    IN  IF KeywordOf(ident) = "None"
        THEN push_token(pop_run(lx, k), Ident(ident), start_pos(lx), byte_len(ident))
        ELSE push_token(pop_run(lx, k), Keyword(KeywordOf(ident)), start_pos(lx),
                        Len(ident))

\* the match of lex on the character c that panic_pop has just returned
lex_match(c, lx) ==
    CASE c \in {"\n", "\r"} -> [lx EXCEPT !.position = Position(@.line + 1, 0)]
      [] c \in {Nul, " "} -> lx
      [] c \in SymbolChars ->
           IF peek_char(lx) = "=" THEN panic_pop(symbol(lx, c, "="))
           ELSE symbol(lx, c, " ")
      [] c = "(" -> push_token(lx, Symbol("LeftBracket"), lx.position, 1)
      [] c = ")" -> push_token(lx, Symbol("RightBracket"), lx.position, 1)
      [] c = "[" -> push_token(lx, Symbol("LeftSqBracket"), lx.position, 1)
      [] c = "]" -> push_token(lx, Symbol("RightSqBracket"), lx.position, 1)
      [] c = "." -> push_token(lx, Symbol("Dot"), lx.position, 1)
      [] c = "\"" -> string(lx)
      [] c \in DigitChars -> numeric(lx, c)
      [] c \in LetterChars \cup {"_"} -> ident_or_keyword(lx, c)
      [] OTHER -> [lx EXCEPT !.res = "Err",
                             !.err = UnrecognisedCharacter(c, lx.position, lx.input_og)]

\* Lexer::lex
RECURSIVE lex(_)
lex(lx) ==
    IF lx.res # "Ok" \/ lx.input = <<>> THEN lx
    ELSE The({ lex(next) : next \in {lex_match(peek_char(lx), panic_pop(lx))} })

----------------------------------------------------------------------------
(* error.rs: the Display of LexerError and of ParserError.                 *)

\* a String of n copies of one character, as the push loops build it
Repeat(c, n) == [i \in 1..n |-> c]

\* str::lines: the pieces that line feeds end, each without a carriage return
\* before its line feed, and the rest of the text when it is not empty
RECURSIVE lines_rest(_, _)
lines_rest(chars, piece) ==
    IF chars = <<>> THEN (IF piece = <<>> THEN <<>> ELSE <<piece>>)
    ELSE IF Head(chars) = "\n"
         THEN <<IF piece # <<>> /\ piece[Len(piece)] = "\r" THEN Pop(piece) ELSE piece>>
              \o lines_rest(Tail(chars), <<>>)
         ELSE lines_rest(Tail(chars), Append(piece, Head(chars)))

lines(text) == lines_rest(text, <<>>)

\* offending_line: nth(line - 1) of the lines of the input; unwrap panics when
\* there is no such line
offending_line(line, input_og) ==
    IF line \in 1..Len(lines(input_og))
    THEN [ok |-> TRUE, text |-> lines(input_og)[line]]
    ELSE [ok |-> FALSE, text |-> <<>>]

\* pointer_string: a space for each of 1..col, then len carets
pointer_string(col, len) ==
    Repeat(" ", IF col > 1 THEN col - 1 ELSE 0) \o Repeat("^", len)

\* line_number_strings: "line | " and as many spaces as line has digits
\* before " | "
line_number_strings(line) ==
    [num |-> DecimalString(line) \o <<" ", "|", " ">>,
     pad |-> Repeat(" ", Len(DecimalString(line))) \o <<" ", "|", " ">>]

\* write_position
write_position(position, len, input_og) ==
    LET margin == line_number_strings(position.line)
        line == offending_line(position.line, input_og)
    IN  [ok |-> line.ok,
         text |-> margin.pad \o <<"\n">> \o margin.num \o line.text \o <<"\n">>
                    \o margin.pad \o pointer_string(position.col, len)]

\* <LexerError as Display>::fmt
LexerErrorFmt(e) ==
    LET under == write_position(e.position, 1, e.input)
    IN  [under EXCEPT !.text = <<"U", "n", "r", "e", "c", "o", "g", "n", "i", "s", "e", "d",
                                 " ", "C", "h", "a", "r", "a", "c", "t", "e", "r", "\n">>
                               \o @]

\* <ParserError as Display>::fmt
ParserErrorFmt(t, input_og) ==
    LET under == write_position(t.start, t.len, input_og)
    IN  [under EXCEPT !.text = <<"I", "n", "v", "a", "l", "i", "d", " ", "s", "t", "a", "t",
                                 "e", "m", "e", "n", "t", " ", "a", "t", " ", "t", "h", "e",
                                 " ", "r", "o", "o", "t", " ", "o", "f", " ", "b", "l", "o",
                                 "c", "k", "\n">> \o @]

\* main on Err of lexer.lex(): two println!
lex_error_printed(e) ==
    LET shown == LexerErrorFmt(e)
    IN  [shown EXCEPT !.text = <<"E", "r", "r", "o", "r", " ", "w", "h", "i", "l", "e", " ",
                                 "l", "e", "x", "i", "n", "g", ":", "\n">>
                               \o @ \o <<"\n">>]

\* main on Err of parser.parse(): one println!
parse_error_printed(t, input_og) ==
    LET shown == ParserErrorFmt(t, input_og)
    IN  [shown EXCEPT !.text = @ \o <<"\n">>]

\* nothing is printed
NothingPrinted == [ok |-> TRUE, text |-> <<>>]

----------------------------------------------------------------------------
(* The pipeline of bin/ocrint.rs: Lexer::new, Lexer::lex, Parser::new,      *)
(* Parser::parse,                                                          *)
(* Interpretor::new, Interpretor::run.  run_node is one action for each    *)
(* kind of node; todo holds the nodes the enclosing for and while loops    *)
(* have still to pass to run_node.                                         *)

Machine == [sym |-> symbol_table, stdin |-> stdin, stdout |-> stdout,
            trace |-> trace, ok |-> TRUE]

\* the state after a statement has run: a panic ends the run where it happened
Commit(r, rest) ==
    /\ symbol_table' = r.m.sym
    /\ stdin' = r.m.stdin
    /\ stdout' = r.m.stdout
    /\ trace' = r.m.trace
    /\ stage' = IF r.m.ok THEN "run" ELSE "panic"
    /\ todo' = IF r.m.ok THEN rest ELSE todo
    /\ UNCHANGED <<scenario, program, tokens, ast, perr, overflow_checks, source, lerr,
                   diagnostic>>

\* run_node has been called on node
Entered(node) ==
    [Machine EXCEPT !.trace = Append(@, [e |-> "run_node", node |-> node.node])]

Running(kind) ==
    /\ stage = "run"
    /\ todo # <<>>
    /\ Head(todo).node = kind
    /\ Len(trace) < MaxTrace

\* the families whose program is a text given to Lexer::new
SourceFamilies == {"symbols", "text", "example", "operator", "symbol_pair", "word"}

\* main after lexer.lex() with its result ignored: the parser is given the
\* tokens whatever lex returned
after_lex_ignoring_error(res) == IF res = "Panic" THEN "panic" ELSE "parse"

\* main after lexer.lex(): on Err it prints the error and returns
after_lex(res) ==
    CASE res = "Ok" -> "parse"
      [] res = "Err" -> "lex_error"
      [] OTHER -> "panic"

\* Lexer::new and Lexer::lex, and main's println! of its LexerError
Lex ==
    /\ stage = "lex"
    /\ \E lx \in {lex(LexerNew(source))} :
           /\ tokens' = lx.tokens
           /\ lerr' = lx.err
           /\ program' = IF lx.res = "Ok" THEN lx.tokens ELSE program
           /\ \E printed \in {IF lx.res = "Err" THEN lex_error_printed(lx.err)
                                ELSE NothingPrinted} :
                  /\ diagnostic' = printed.text
                  /\ stage' = IF printed.ok THEN after_lex(lx.res) ELSE "panic"
    /\ UNCHANGED <<scenario, source, ast, perr, todo, symbol_table, stdin, stdout, trace,
                   overflow_checks>>

\* Parser::parse, and main's println! of its ParserError; a program given as
\* a token list is parsed as the tests parse it, without main
Parse ==
    /\ stage = "parse"
    /\ \E r \in {parse(tokens)} :
           /\ tokens' = r.p.ts
           /\ ast' = r.n
           /\ perr' = r.err
           /\ \E printed \in {IF r.res = "Err" /\ scenario.family \in SourceFamilies
                                THEN parse_error_printed(r.err, source)
                                ELSE NothingPrinted} :
                  /\ diagnostic' = printed.text
                  /\ stage' = CASE ~printed.ok -> "panic"
                                [] r.res = "Ok" -> "parsed"
                                [] r.res = "Err" -> "parse_error"
                                [] OTHER -> "panic"
    /\ UNCHANGED <<scenario, program, todo, symbol_table, stdin, stdout, trace,
                   overflow_checks, source, lerr>>

\* Interpretor::new and the match of Interpretor::run
Run ==
    /\ stage = "parsed"
    /\ stage' = IF ast.node = "Block" THEN "run" ELSE "panic"
    /\ todo' = IF ast.node = "Block" THEN ast.nodes ELSE <<>>
    /\ symbol_table' = SymbolTableNew
    /\ UNCHANGED <<scenario, program, tokens, ast, perr, stdin, stdout, trace,
                   overflow_checks, source, lerr, diagnostic>>

\* run_node on a FuncCall: run_func, its value dropped
RunFuncCall ==
    /\ Running("FuncCall")
    /\ \E r \in {run_func(Head(todo), Entered(Head(todo)))} : Commit(r, Tail(todo))

\* run_node on an Assign: run_assign
RunAssign ==
    /\ Running("Assign")
    /\ \E r \in {run_assign(Head(todo), Entered(Head(todo)))} : Commit(r, Tail(todo))

\* run_node on an ArrayAssign: run_array_assign
RunArrayAssign ==
    /\ Running("ArrayAssign")
    /\ \E r \in {run_array_assign(Head(todo), Entered(Head(todo)))} : Commit(r, Tail(todo))

\* run_node on an ArrayAssingIndex: run_array_assign_ind
RunArrayAssignInd ==
    /\ Running("ArrayAssingIndex")
    /\ \E r \in {run_array_assign_ind(Head(todo), Entered(Head(todo)))} : Commit(r, Tail(todo))

\* run_node on an IfExpr: run_if, up to its call of run_node on a branch
RunIf ==
    /\ Running("IfExpr")
    /\ \E condition \in {run_expr(Head(todo).expr, Entered(Head(todo)))} :
          \E taken \in {condition_value(condition)} :
             Commit(taken,
                    <<IF taken.v = TRUE THEN Head(todo).then ELSE Head(todo).els>>
                      \o Tail(todo))

\* the position of run_while between two iterations of its loop
WhileLoop(node) == [node |-> "WhileLoop", stmt |-> node]

\* one evaluation of the condition of run_while's loop: evaluate_condition, and
\* run_node on the body before the next evaluation when it is true
while_iteration(node, m, rest) ==
    \E condition \in {evaluate_condition(node.expr, m)} :
       Commit(condition,
              IF condition.v = TRUE THEN <<node.body, WhileLoop(node)>> \o rest ELSE rest)

\* run_node on a WhileStmt: run_while, up to its first call of run_node on the body
RunWhile ==
    /\ Running("WhileStmt")
    /\ while_iteration(Head(todo), Entered(Head(todo)), Tail(todo))

\* run_while when run_node on the body has returned
RunWhileAgain ==
    /\ Running("WhileLoop")
    /\ while_iteration(Head(todo).stmt, Machine, Tail(todo))

\* run_node on a Block: run_block
RunBlock ==
    /\ Running("Block")
    /\ Commit(Return(None, Entered(Head(todo))), Head(todo).nodes \o Tail(todo))

\* run_node on any other node: todo!("more node types")
RunOther ==
    /\ stage = "run"
    /\ todo # <<>>
    /\ Head(todo).node \notin {"FuncCall", "Assign", "ArrayAssign", "ArrayAssingIndex",
                               "IfExpr", "WhileStmt", "WhileLoop", "Block"}
    /\ Commit(Panic(Entered(Head(todo))), Tail(todo))

\* Interpretor::run returns
Finish ==
    /\ stage = "run"
    /\ todo = <<>>
    /\ stage' = "done"
    /\ UNCHANGED <<scenario, program, tokens, ast, perr, todo, symbol_table, stdin,
                   stdout, trace, overflow_checks, source, lerr, diagnostic>>

----------------------------------------------------------------------------
(* The programs and the standard inputs the model runs.  A program is the  *)
(* token list of its source text, each token built as parse_from_list      *)
(* builds it.                                                              *)

I(name) == parse_from_list_token(Ident(name))

N(x) == parse_from_list_token(NumberLit(x))

S(chars) == parse_from_list_token(StringLit(chars))

K(k) == parse_from_list_token(Keyword(k))

Y(sym) == parse_from_list_token(Symbol(sym))

print == <<"p", "r", "i", "n", "t">>

input == <<"i", "n", "p", "u", "t">>

length == <<"l", "e", "n", "g", "t", "h">>

\* all sequences of length 0..n over the set elems
RECURSIVE SeqsUpTo(_, _)
SeqsUpTo(elems, n) ==
    IF n = 0 THEN {<<>>}
    ELSE LET shorter == SeqsUpTo(elems, n - 1)
         IN  shorter \cup {Append(q, x) : q \in shorter, x \in elems}

\* print("<chars>")
PrintText(chars) == <<I(print), Y("LeftBracket"), S(chars), Y("RightBracket")>>

\* print(<ident>)
PrintVar(ident) == <<I(print), Y("LeftBracket"), I(ident), Y("RightBracket")>>

\* the symbol tokens parse_expr and parse_term take as operators
ChainSymbols == {"Plus", "Minus", "Multiply", "Divide", "Greater", "GreaterEquals",
                 "Less", "LessEquals", "DoubleEquals"}

\* the Op a symbol token stands for
SymbolOp(sym) ==
    CASE sym = "Plus" -> "Plus"
      [] sym = "Minus" -> "Minus"
      [] sym = "Multiply" -> "Multiply"
      [] sym = "Divide" -> "Divide"
      [] sym = "Greater" -> "Greater"
      [] sym = "GreaterEquals" -> "GreaterEqual"
      [] sym = "Less" -> "Less"
      [] sym = "LessEquals" -> "LessEqual"
      [] sym = "DoubleEquals" -> "EqualTo"

\* the i-th operand of a chain: 10, 5, 2, 3, 4, ...
ChainOperand(i) == IF i = 1 THEN 10 ELSE IF i = 2 THEN 5 ELSE i - 1

\* num = x1 op1 x2 op2 ... xn
RECURSIVE ChainTail(_, _)
ChainTail(ops, i) ==
    IF ops = <<>> THEN <<>>
    ELSE <<Y(Head(ops)), N(ChainOperand(i + 1))>> \o ChainTail(Tail(ops), i + 1)

ChainTokens(ops) ==
    <<I(<<"n", "u", "m">>), Y("Equals"), N(ChainOperand(1))>> \o ChainTail(ops, 1)

\* the simple statements placed around a nested statement
SimpleStatements ==
    { PrintText(<<"a">>), <<I(<<"x">>), Y("Equals"), N(1)>> }

\* an if statement without else, one with else, and a while statement
Nested(kind) ==
    CASE kind = "if" ->
           <<K("If"), N(10), Y("Greater"), N(5), K("Then")>> \o PrintText(<<"t">>)
             \o <<K("EndIf")>>
      [] kind = "if_else" ->
           <<K("If"), N(10), Y("Greater"), N(5), K("Then")>> \o PrintText(<<"t">>)
             \o <<K("Else")>> \o PrintText(<<"e">>) \o <<K("EndIf")>>
      [] kind = "while" ->
           <<K("While"), N(5), Y("Greater"), N(10)>> \o PrintText(<<"w">>)
             \o <<K("EndWhile")>>

\* the statements stmts at the top level, in the then block of an if, or in the
\* body of a while
Enclosed(wrap, stmts) ==
    CASE wrap = "top" -> stmts
      [] wrap = "if" ->
           <<K("If"), N(1), Y("Less"), N(2), K("Then")>> \o stmts \o <<K("EndIf")>>
      [] wrap = "while" ->
           <<K("While"), I(<<"k">>), Y("Less"), N(1)>> \o stmts
             \o <<I(<<"k">>), Y("Equals"), N(1), K("EndWhile")>>

NestTokens(sc) ==
    (IF sc.wrap = "while" THEN <<I(<<"k">>), Y("Equals"), N(0)>> ELSE <<>>)
      \o Enclosed(sc.wrap, Concat(sc.s1) \o Nested(sc.kind) \o Concat(sc.s2))

\* if 10 + 5 > 5 then print("hello world") endif
HelloWorld == <<"h", "e", "l", "l", "o", " ", "w", "o", "r", "l", "d">>

ConditionalTokens ==
    <<K("If"), N(10), Y("Plus"), N(5), Y("Greater"), N(5), K("Then")>>
      \o PrintText(HelloWorld) \o <<K("EndIf")>>

arr == <<"a", "r", "r">>

\* arr[i] = v
IndexAssignTokens(a) ==
    <<I(arr), Y("LeftSqBracket"), N(a[1]), Y("RightSqBracket"), Y("Equals"), N(a[2])>>

\* print(arr[j])
PrintSlotTokens(j) ==
    <<I(print), Y("LeftBracket"), I(arr), Y("LeftSqBracket"), N(j), Y("RightSqBracket"),
      Y("RightBracket")>>

\* array arr[n], the index assignments, print(arr[j]) for every slot, print(arr.length)
ArrayTokens(sc) ==
    <<K("Array"), I(arr), Y("LeftSqBracket"), N(sc.n), Y("RightSqBracket")>>
      \o Concat([i \in 1..Len(sc.assigns) |-> IndexAssignTokens(sc.assigns[i])])
      \o Concat([j \in 1..sc.n |-> PrintSlotTokens(j - 1)])
      \o <<I(print), Y("LeftBracket"), I(arr), Y("Dot"), I(length), Y("RightBracket")>>

\* a = 0  b = 1  count = 2
\* while count < 4  print(a + b)  a = b  b = a + b  count = count + 1  endwhile
count == <<"c", "o", "u", "n", "t">>

FibonacciTokens ==
    <<I(<<"a">>), Y("Equals"), N(0),
      I(<<"b">>), Y("Equals"), N(1),
      I(count), Y("Equals"), N(2),
      K("While"), I(count), Y("Less"), N(4),
      I(print), Y("LeftBracket"), I(<<"a">>), Y("Plus"), I(<<"b">>), Y("RightBracket"),
      I(<<"a">>), Y("Equals"), I(<<"b">>),
      I(<<"b">>), Y("Equals"), I(<<"a">>), Y("Plus"), I(<<"b">>),
      I(count), Y("Equals"), I(count), Y("Plus"), N(1),
      K("EndWhile")>>

\* input("<chars>")
InputCall(chars) == <<I(input), Y("LeftBracket"), S(chars), Y("RightBracket")>>

\* a = input("x") + input("y")
InputOrderTokens ==
    <<I(<<"a">>), Y("Equals")>> \o InputCall(<<"x">>) \o <<Y("Plus")>> \o InputCall(<<"y">>)

\* name = input("prompt")  print(name)
name == <<"n", "a", "m", "e">>

prompt == <<"p", "r", "o", "m", "p", "t">>

EchoTokens == <<I(name), Y("Equals")>> \o InputCall(prompt) \o PrintVar(name)

\* the statements whose evaluation combines a Number with a Boolean or refers to
\* an identifier that has no binding (y is never assigned)
AbortStatements ==
    [ number_boolean |->
        <<I(<<"x">>), Y("Equals"), N(5), Y("Plus"), N(1), Y("Less"), N(2)>>,
      boolean_number |->
        <<I(<<"x">>), Y("Equals"), Y("LeftBracket"), N(1), Y("Less"), N(2),
          Y("RightBracket"), Y("Plus"), N(5)>>,
      number_boolean_print |->
        <<I(print), Y("LeftBracket"), N(5), Y("Multiply"), N(1), Y("DoubleEquals"), N(1),
          Y("RightBracket")>>,
      unbound_print |-> PrintVar(<<"y">>),
      unbound_assign |-> <<I(<<"x">>), Y("Equals"), I(<<"y">>)>>,
      unbound_left |-> <<I(<<"x">>), Y("Equals"), I(<<"y">>), Y("Plus"), N(1)>>,
      unbound_right |-> <<I(<<"x">>), Y("Equals"), N(1), Y("Plus"), I(<<"y">>)>>,
      unbound_index |->
        <<I(<<"x">>), Y("Equals"), I(<<"y">>), Y("LeftSqBracket"), N(0),
          Y("RightSqBracket")>>,
      unbound_index_assign |->
        <<I(<<"y">>), Y("LeftSqBracket"), N(0), Y("RightSqBracket"), Y("Equals"), N(1)>>,
      unbound_length |-> <<I(<<"x">>), Y("Equals"), I(<<"y">>), Y("Dot"), I(length)>>,
      unbound_prompt |->
        <<I(<<"x">>), Y("Equals"), I(input), Y("LeftBracket"), I(<<"y">>),
          Y("RightBracket")>> ]

\* print("a")  <the statement, enclosed>  print("b")  z = 1
AbortTokens(sc) ==
    PrintText(<<"a">>)
      \o (IF sc.wrap = "while" THEN <<I(<<"k">>), Y("Equals"), N(0)>> ELSE <<>>)
      \o Enclosed(sc.wrap, AbortStatements[sc.bad])
      \o PrintText(<<"b">>) \o <<I(<<"z">>), Y("Equals"), N(1)>>

\* an operand of each type: a Number and a String literal, b bound to a Boolean,
\* v bound to an Array
OperandTokens(type) ==
    CASE type = "Number" -> <<N(5)>>
      [] type = "String" -> <<S(<<"s">>)>>
      [] type = "Boolean" -> <<I(<<"b">>)>>
      [] type = "Array" -> <<I(<<"v">>)>>

ValueTypes == {"Number", "String", "Boolean", "Array"}

\* b = 1 < 2  array v[1]  r = <left> <op> <right>
ConcatTokens(sc) ==
    <<I(<<"b">>), Y("Equals"), N(1), Y("Less"), N(2),
      K("Array"), I(<<"v">>), Y("LeftSqBracket"), N(1), Y("RightSqBracket"),
      I(<<"r">>), Y("Equals")>>
      \o OperandTokens(sc.left) \o <<Y(sc.op)>> \o OperandTokens(sc.right)

\* array v[2]  v.length  print("after")
DotStatementTokens ==
    <<K("Array"), I(<<"v">>), Y("LeftSqBracket"), N(2), Y("RightSqBracket"),
      I(<<"v">>), Y("Dot"), I(length)>> \o PrintText(<<"a">>)

\* the forms of an if condition: those that evaluate to a Boolean, and two
\* BinaryExprs that evaluate to a Number and to a String
BooleanConditions == {"binary", "variable", "bracketed", "bracketed_variable"}

OtherConditions == {"number", "string"}

\* 1 < 2 for true, 2 < 1 for false
Comparison(truth) ==
    IF truth THEN <<N(1), Y("Less"), N(2)>> ELSE <<N(2), Y("Less"), N(1)>>

ConditionTokens(form, truth) ==
    CASE form = "binary" -> Comparison(truth)
      [] form = "variable" -> <<I(<<"b">>)>>
      [] form = "bracketed" -> <<Y("LeftBracket")>> \o Comparison(truth) \o <<Y("RightBracket")>>
      [] form = "bracketed_variable" -> <<Y("LeftBracket"), I(<<"b">>), Y("RightBracket")>>
      [] form = "number" -> <<N(1), Y("Plus"), N(2)>>
      [] form = "string" -> <<S(<<"s">>), Y("Plus"), S(<<"s">>)>>

\* b = <comparison>  if <condition> then print("t") [else print("e")] endif
IfConditionTokens(sc) ==
    <<I(<<"b">>), Y("Equals")>> \o Comparison(sc.truth)
      \o <<K("If")>> \o ConditionTokens(sc.form, sc.truth) \o <<K("Then")>>
      \o PrintText(<<"t">>)
      \o (IF sc.els THEN <<K("Else")>> \o PrintText(<<"e">>) ELSE <<>>)
      \o <<K("EndIf")>>

\* the operators of lib.rs Op
Ops == {"Plus", "Minus", "Multiply", "Divide", "Mod", "Greater", "GreaterEqual", "Less",
        "LessEqual", "EqualTo"}

\* Numbers at both ends and in the middle of the range of Num
ArithmeticOperands == {0, 1, 2, NumModulus \div 2, NumModulus - 1}

\* r = x <op> y as a tree handed to Interpretor::new: the parser has no arm
\* for Mod, the interpreter has
ArithmeticAst(sc) ==
    Block(<<Assign(<<"r">>, BinaryExpr(Primary(Number(sc.x)), sc.op,
                                       Primary(Number(sc.y))))>>)

\* array x[n]  y = x  s = 1  x[i] = v  s = 2
AliasTokens(sc) ==
    <<K("Array"), I(<<"x">>), Y("LeftSqBracket"), N(sc.n), Y("RightSqBracket"),
      I(<<"y">>), Y("Equals"), I(<<"x">>),
      I(<<"s">>), Y("Equals"), N(1),
      I(<<"x">>), Y("LeftSqBracket"), N(sc.i), Y("RightSqBracket"), Y("Equals"), N(sc.v),
      I(<<"s">>), Y("Equals"), N(2)>>

\* program texts of the characters that start a one- or two-character symbol
SymbolSourceChars == {"=", ">", "<", "+", "-", " "}

\* program texts with string literals, closed or not, identifiers, numbers
\* within and beyond Num, lines, and a character outside lex's arms
TextSourceChars == {"\"", "a", "9", " ", "\n", "?"}

\* what follows an operator character: the end of the text, '=', a blank, a
\* digit, a letter, another operator character, a line feed
SymbolFollowers == {<<>>, <<"=">>, <<" ">>, <<"7">>, <<"a">>, <<"+">>, <<"\n">>}

\* the text of each KeywordKind, then included
KeywordTexts ==
    [Do |-> <<"d", "o">>,
     While |-> <<"w", "h", "i", "l", "e">>,
     EndWhile |-> <<"e", "n", "d", "w", "h", "i", "l", "e">>,
     If |-> <<"i", "f">>,
     Then |-> <<"t", "h", "e", "n">>,
     Else |-> <<"e", "l", "s", "e">>,
     EndIf |-> <<"e", "n", "d", "i", "f">>,
     Break |-> <<"b", "r", "e", "a", "k">>,
     Array |-> <<"a", "r", "r", "a", "y">>]

\* the keywords as they are written, and in capitals, cut short and as names
Words ==
    {KeywordTexts[k] : k \in DOMAIN KeywordTexts}
      \cup {<<"D", "o">>, <<"I", "F">>, <<"T", "h", "e", "n">>, <<"e", "n", "d">>,
            <<"w", "h", "i", "l">>, <<"a">>, <<"_">>}

\* a word with a character before it and a character after it, or without
WordRun(sc) == sc.before \o sc.word \o sc.after

\* the text of each Op
OperatorTexts ==
    [Plus |-> <<"+">>, Minus |-> <<"-">>, Multiply |-> <<"*">>, Divide |-> <<"/">>,
     Mod |-> <<"%">>, Greater |-> <<">">>, GreaterEqual |-> <<">", "=">>,
     Less |-> <<"<">>, LessEqual |-> <<"<", "=">>, EqualTo |-> <<"=", "=">>]

\* the program a=7 op 2, written without spaces
OperatorSource(sc) == <<"a", "=", "7">> \o OperatorTexts[sc.op] \o <<"2">>

\* the inputs of tests::equals, tests::greater, tests::less and tests::string,
\* the program print("hi"), and programs the parser rejects at a bracket, at
\* a keyword and at a number on their second line, two statements with a
\* carriage return and a line feed between them, programs with an accented
\* letter in a string literal, in a name and alone, and a program that assigns
\* an array variable to a slot of an array
ExampleSources ==
    [hello |-> <<"p", "r", "i", "n", "t", "(", "\"", "h", "i", "\"", ")">>,
     equals |-> <<"=", "=", " ", "=">>,
     greater |-> <<">", "=", " ", ">">>,
     less |-> <<"<", "=", " ", "<">>,
     bracket |-> <<" ", ")">>,
     accent_string |-> <<"a", "=", "\"", "t", EAcute, "\"">>,
     accent_ident |-> <<"t", EAcute, "=", "1">>,
     accent |-> <<"a", "=", EAcute>>,
     crlf |-> <<"a", "=", "1", "\r", "\n", "b", "=", "2">>,
     nested |-> <<"a", "r", "r", "a", "y", " ", "a", "[", "2", "]", " ",
                  "a", "r", "r", "a", "y", " ", "b", "[", "1", "]", " ",
                  "a", "[", "0", "]", "=", "b">>,
     keyword |-> <<" ", "d", "o">>,
     second_line |-> <<"a", "=", "9", "\n", " ", " ", "9", "9">>,
     string |-> <<"\"", "t", "h", "i", "s", " ", "i", "s", " ", "a", " ", "t", "e", "s", "t",
                  " ", "s", "t", "r", "i", "n", "g", "\"", " ", "+", " ", "7">>]

ScenarioSource(sc) ==
    CASE sc.family \in {"symbols", "text"} -> sc.text
      [] sc.family = "example" -> ExampleSources[sc.name]
      [] sc.family = "operator" -> OperatorSource(sc)
      [] sc.family = "symbol_pair" -> <<sc.first>> \o sc.next
      [] sc.family = "word" -> WordRun(sc) \o sc.next
      [] OTHER -> <<>>

\* tokens that start no statement, end no block and continue no expression: a
\* Number, a String, symbols and the keywords then, do and break
InvalidStartTokens ==
    {N(5), S(<<"s">>), Y("Equals"), Y("RightBracket"), Y("Mod"), K("Then"), K("Do"),
     K("Break")}

\* statements and then a token that starts none, at the top level, in the then
\* block of an if or in the body of a while
InvalidTokenTokens(sc) == Enclosed(sc.wrap, Concat(sc.s1) \o <<sc.bad>>)

\* statements, then endif, endwhile or else outside every if and while, then
\* statements
StrayEndTokens(sc) == Concat(sc.s1) \o <<K(sc.end)>> \o Concat(sc.s2)

\* what follows the size expression of an array declaration: nothing, the
\* closing bracket, a statement, or the closing bracket and a statement
ArrayDeclFollowers ==
    [end |-> <<>>,
     bracket |-> <<Y("RightSqBracket")>>,
     statement |-> PrintText(<<"a">>),
     bracket_statement |-> <<Y("RightSqBracket")>> \o PrintText(<<"a">>)]

\* array arr [ 3 and what follows it
ArrayDeclTokens(sc) ==
    <<K("Array"), I(arr), Y("LeftSqBracket"), N(3)>> \o ArrayDeclFollowers[sc.after]

\* array arr[n]  arr[0] = 7  x = 5, then arr[i] = 9 or x = arr[i], then
\* print("a"), for i below n and not below n
OutOfRangeTokens(sc) ==
    <<K("Array"), I(arr), Y("LeftSqBracket"), N(sc.n), Y("RightSqBracket")>>
      \o IndexAssignTokens(<<0, 7>>)
      \o <<I(<<"x">>), Y("Equals"), N(5)>>
      \o (IF sc.use = "assign" THEN IndexAssignTokens(<<sc.i, 9>>)
          ELSE <<I(<<"x">>), Y("Equals"), I(arr), Y("LeftSqBracket"), N(sc.i),
                 Y("RightSqBracket")>>)
      \o PrintText(<<"a">>)

StdinChars == {"a", "b", "\n"}

Stdins == SeqsUpTo(StdinChars, MaxStdin)

NoStdin == {<<>>}

Scenarios ==
    [family : {"chain"}, ops : SeqsUpTo(ChainSymbols, MaxChainOps) \ {<<>>},
     stdin : NoStdin]
    \cup [family : {"nest"}, kind : {"if", "if_else", "while"},
          wrap : {"top", "if", "while"},
          s1 : SeqsUpTo(SimpleStatements, MaxStatements),
          s2 : SeqsUpTo(SimpleStatements, MaxStatements), stdin : NoStdin]
    \cup [family : {"conditional"}, stdin : NoStdin]
    \cup { [family |-> "array", n |-> n, assigns |-> a, stdin |-> <<>>] :
             n \in 1..MaxArraySize,
             a \in SeqsUpTo((0..(MaxArraySize - 1)) \X {7, 9}, MaxIndexAssigns) }
    \cup [family : {"fibonacci"}, stdin : NoStdin]
    \cup [family : {"input_order", "echo"}, stdin : Stdins]
    \cup [family : {"abort"}, bad : DOMAIN AbortStatements,
          wrap : {"top", "if", "while"}, stdin : NoStdin]
    \cup [family : {"concat"}, left : ValueTypes, right : ValueTypes, op : ChainSymbols,
          stdin : NoStdin]
    \cup [family : {"dot_statement"}, stdin : NoStdin]
    \cup [family : {"if_condition"}, form : BooleanConditions \cup OtherConditions,
          truth : BOOLEAN, els : BOOLEAN, stdin : NoStdin]
    \cup [family : {"alias"}, n : 1..MaxArraySize, i : 0..(MaxArraySize - 1),
          v : {7, 9}, stdin : NoStdin]
    \cup [family : {"symbols"}, text : SeqsUpTo(SymbolSourceChars, MaxSymbolChars),
          stdin : NoStdin]
    \cup [family : {"text"}, text : SeqsUpTo(TextSourceChars, MaxTextChars),
          stdin : NoStdin]
    \cup [family : {"example"}, name : DOMAIN ExampleSources, stdin : NoStdin]
    \cup [family : {"invalid_token"}, wrap : {"top", "if", "while"},
          s1 : SeqsUpTo(SimpleStatements, MaxStatements), bad : InvalidStartTokens,
          stdin : NoStdin]
    \cup [family : {"arithmetic"}, x : ArithmeticOperands, op : Ops,
          y : ArithmeticOperands, stdin : NoStdin]
    \cup [family : {"word"}, word : Words, before : {<<>>, <<"_">>, <<"x">>},
          after : {<<>>, <<"s">>, <<"1">>, <<"_">>, <<EAcute>>},
          next : {<<>>, <<" ">>, <<"(">>}, stdin : NoStdin]
    \cup [family : {"symbol_pair"}, first : SymbolChars, next : SymbolFollowers,
          stdin : NoStdin]
    \cup [family : {"out_of_range"}, n : 1..MaxArraySize, i : 0..(MaxArraySize + 1),
          use : {"ref", "assign"}, stdin : NoStdin]
    \cup [family : {"array_decl"}, after : DOMAIN ArrayDeclFollowers, stdin : NoStdin]
    \cup [family : {"operator"}, op : DOMAIN OperatorTexts, stdin : NoStdin]
    \cup [family : {"stray_end"}, s1 : SeqsUpTo(SimpleStatements, MaxStatements),
          end : {"EndIf", "EndWhile", "Else"},
          s2 : SeqsUpTo(SimpleStatements, MaxStatements), stdin : NoStdin]

\* only index assignments a[i] = v with i < n belong to an array scenario
ValidScenario(sc) ==
    /\ sc.family = "array" => \A i \in 1..Len(sc.assigns) : sc.assigns[i][1] < sc.n
    /\ sc.family = "concat" => "String" \in {sc.left, sc.right}
    /\ sc.family = "alias" => sc.i < sc.n

ScenarioTokens(sc) ==
    CASE sc.family = "chain" -> ChainTokens(sc.ops)
      [] sc.family = "nest" -> NestTokens(sc)
      [] sc.family = "conditional" -> ConditionalTokens
      [] sc.family = "array" -> ArrayTokens(sc)
      [] sc.family = "fibonacci" -> FibonacciTokens
      [] sc.family = "input_order" -> InputOrderTokens
      [] sc.family = "echo" -> EchoTokens
      [] sc.family = "abort" -> AbortTokens(sc)
      [] sc.family = "concat" -> ConcatTokens(sc)
      [] sc.family = "dot_statement" -> DotStatementTokens
      [] sc.family = "if_condition" -> IfConditionTokens(sc)
      [] sc.family = "alias" -> AliasTokens(sc)
      [] sc.family = "invalid_token" -> InvalidTokenTokens(sc)
      [] sc.family = "out_of_range" -> OutOfRangeTokens(sc)
      [] sc.family = "array_decl" -> ArrayDeclTokens(sc)
      [] sc.family = "stray_end" -> StrayEndTokens(sc)
      [] OTHER -> <<>>

\* the families whose program is a tree given to Interpretor::new
TreeFamilies == {"arithmetic"}

ScenarioAst(sc) ==
    CASE sc.family = "arithmetic" -> ArithmeticAst(sc)
      [] OTHER -> NoNode

----------------------------------------------------------------------------
(* The specification.                                                      *)

Init ==
    /\ scenario \in {sc \in Scenarios : ValidScenario(sc)}
    /\ program = ScenarioTokens(scenario)
    /\ tokens = program
    /\ source = ScenarioSource(scenario)
    /\ lerr = NoLexerError
    /\ stage = CASE scenario.family \in SourceFamilies -> "lex"
                 [] scenario.family \in TreeFamilies -> "parsed"
                 [] OTHER -> "parse"
    /\ ast = ScenarioAst(scenario)
    /\ perr = NoToken
    /\ todo = <<>>
    /\ symbol_table = SymbolTableNew
    /\ stdin = scenario.stdin
    /\ stdout = <<>>
    /\ diagnostic = <<>>
    /\ trace = <<>>
    /\ overflow_checks \in BOOLEAN

Next ==
    \/ Lex
    \/ Parse
    \/ Run
    \/ RunFuncCall
    \/ RunAssign
    \/ RunArrayAssign
    \/ RunArrayAssignInd
    \/ RunIf
    \/ RunWhile
    \/ RunWhileAgain
    \/ RunBlock
    \/ RunOther
    \/ Finish

Spec == Init /\ [][Next]_vars

\* the process runs main to its end or to a panic: a step that can be taken is taken
FairSpec == Spec /\ WF_vars(Next)

----------------------------------------------------------------------------
(* The claims.                                                             *)

\* the nodes of a list of statements, each parsed on its own
RECURSIVE StatementNodes(_)
StatementNodes(stmts) ==
    IF stmts = <<>> THEN <<>>
    ELSE parse(Head(stmts)).n.nodes \o StatementNodes(Tail(stmts))

\* the block S1 <if-or-while statement> S2 is to parse to: the statements of S1,
\* the if or while node, the statements of S2
NestBlock(sc) ==
    Block(StatementNodes(sc.s1) \o <<parse(Nested(sc.kind)).n.nodes[1]>>
            \o StatementNodes(sc.s2))

\* the tree the program of a nest scenario is to parse to
NestExpected(sc) ==
    CASE sc.wrap = "top" -> NestBlock(sc)
      [] sc.wrap = "if" ->
           Block(<<IfExpr(BinaryExpr(Primary(Number(1)), "Less", Primary(Number(2))),
                          NestBlock(sc), Block(<<>>))>>)
      [] sc.wrap = "while" ->
           Block(<<Assign(<<"k">>, Primary(Number(0))),
                   WhileStmt(BinaryExpr(VariableRef(<<"k">>), "Less", Primary(Number(1))),
                             Block(NestBlock(sc).nodes
                                     \o <<Assign(<<"k">>, Primary(Number(1)))>>))>>)

\* C1: for every token sequence S1 <if or while statement> S2, at the top level or
\* inside an enclosing if or while, the parse returns the tree in which the
\* statements of S2 follow the if or while node in the block that holds it.
C1_NestedStatementKeepsFollowers ==
    (scenario.family = "nest" /\ stage # "parse")
        => ast = NestExpected(scenario)

num == <<"n", "u", "m">>

\* BinaryExpr{x_i, op_i, BinaryExpr{x_i+1, op_i+1, ...}}: the fully right-nested
\* tree of the chain whose operators are ops and whose first operand is the i-th
RECURSIVE RightNested(_, _)
RightNested(ops, i) ==
    IF ops = <<>> THEN Primary(Number(ChainOperand(i)))
    ELSE BinaryExpr(Primary(Number(ChainOperand(i))), SymbolOp(Head(ops)),
                    RightNested(Tail(ops), i + 1))

PrintHelloWorld == FuncCall(print, <<Primary(String(HelloWorld))>>)

\* C3: if 10 + 5 > 5 then print("hello world") endif parses to an If node whose
\* condition is BinaryExpr{BinaryExpr{10, Plus, 5}, Greater, 5}, whose then block
\* holds the print call and whose else block is empty.
C3_AdditiveGroupsBeforeComparison ==
    (scenario.family = "conditional" /\ stage # "parse")
        => ast = Block(<<IfExpr(BinaryExpr(BinaryExpr(Primary(Number(10)), "Plus",
                                                      Primary(Number(5))),
                                           "Greater", Primary(Number(5))),
                                Block(<<PrintHelloWorld>>), Block(<<>>))>>)

\* the value the last of the index assignments to slot j assigns, 0 when none does
RECURSIVE LastAssigned(_, _)
LastAssigned(assigns, j) ==
    IF assigns = <<>> THEN 0
    ELSE IF assigns[Len(assigns)][1] = j THEN assigns[Len(assigns)][2]
    ELSE LastAssigned(SubSeq(assigns, 1, Len(assigns) - 1), j)

\* the lines print(arr[0]) .. print(arr[n-1]) and print(arr.length) are to write
ArrayExpectedOutput(sc) ==
    Concat([j \in 1..sc.n |-> <<Digit(LastAssigned(sc.assigns, j - 1)), "\n">>])
      \o <<Digit(sc.n), "\n">>

\* C4: after array arr[n] and index assignments arr[i] = v with i < n, reading
\* arr[j] gives the value last assigned to slot j, Number(0) when there is none,
\* and arr.length gives n: the run never aborts, and when it is done the printed
\* lines and the array bound to arr are those values.
C4_ArrayReadsLastAssigned ==
    scenario.family = "array"
        => /\ stage # "panic"
           /\ stage = "done"
                => /\ stdout = ArrayExpectedOutput(scenario)
                   /\ symbol_table[arr]
                        = Array([j \in 1..scenario.n |->
                                   Number(LastAssigned(scenario.assigns, j - 1))])

\* array arr[3], arr[1] = 9: print(arr[1]) has printed 9 and print(arr.length) 3
C4_Witness ==
    /\ scenario.family = "array"
    /\ scenario.n = 3
    /\ scenario.assigns = <<<<1, 9>>>>
    /\ stage = "done"
    /\ stdout = <<"0", "\n", "9", "\n", "0", "\n", "3", "\n">>

\* the evaluations of a while condition and the runs of a block, in order
LoopEvents(events) ==
    SelectSeq(events, LAMBDA ev : \/ ev.e = "condition"
                                  \/ (ev.e = "run_node" /\ ev.node = "Block"))

ConditionEvent(b) == [e |-> "condition", value |-> b]

BodyEvent == [e |-> "run_node", node |-> "Block"]

\* the loop events of the while program: condition, body, condition, body, condition
FibonacciLoopEvents ==
    <<ConditionEvent(TRUE), BodyEvent, ConditionEvent(TRUE), BodyEvent,
      ConditionEvent(FALSE)>>

\* at every moment of the run of the while program the condition has been
\* evaluated before each run of the body; at the end there are 3 evaluations and
\* 2 runs of the body, and count is 4
WhileProgramLoops ==
    scenario.family = "fibonacci"
        => /\ stage # "panic"
           /\ \E k \in 0..5 : LoopEvents(trace) = SubSeq(FibonacciLoopEvents, 1, k)
           /\ stage = "done"
                => /\ LoopEvents(trace) = FibonacciLoopEvents
                   /\ symbol_table[count] = Number(4)

\* C5: in the run of a = 0, b = 1, count = 2, while count < 4 ... endwhile the
\* condition is evaluated before every run of the body; the run does not abort,
\* it terminates, and when it is done the condition has been evaluated 3 times
\* (true, true, false), the body has run twice, each time after a true
\* condition, and count is bound to 4.
C5_WhileRunsBodyPerTrueCondition ==
    /\ []WhileProgramLoops
    /\ (scenario.family = "fibonacci") ~> (stage = "done")

\* the run of the while program is done with count bound to 4
C5_Witness ==
    /\ scenario.family = "fibonacci"
    /\ stage = "done"
    /\ is_bound(symbol_table, count)
    /\ symbol_table[count] = Number(4)
    /\ Len(SelectSeq(trace, LAMBDA ev : ev.e = "condition")) = 3

\* whether short is a prefix of long
IsPrefix(short, long) ==
    Len(short) <= Len(long) /\ short = SubSeq(long, 1, Len(short))

\* C6 as stated: the run of the while program writes the Fibonacci numbers
\* after 0, 1, that is 1 and then 2, one per line and nothing else.
C6_WritesFibonacci ==
    (scenario.family = "fibonacci" /\ stage = "done")
        => stdout = <<"1", "\n", "2", "\n">>

\* C6 as amended: the run of the while program writes 1 and then 3, one per
\* line and nothing else (a = b runs before b = a + b, so the second sum is
\* 1 + 2).
C6_WritesOneThenThree ==
    scenario.family = "fibonacci"
        => /\ IsPrefix(stdout, <<"1", "\n", "3", "\n">>)
           /\ stage = "done" => stdout = <<"1", "\n", "3", "\n">>

\* the run of the while program is done and has written 1 and 3
C6_Witness ==
    /\ scenario.family = "fibonacci"
    /\ stage = "done"
    /\ stdout = <<"1", "\n", "3", "\n">>
    /\ symbol_table[<<"b">>] = Number(4)

\* the writes, reads and assignments of a run, in order
IOEvents(events) == SelectSeq(events, LAMBDA ev : ev.e \in {"write", "read", "assign"})

\* C7: in a = input("x") + input("y") the left operand is evaluated completely
\* before the right one: the events of the run are the prompt x, the read of the
\* first line, the prompt y, the read of the second line and then the assignment
\* to a, in this order, and the two reads take standard input in its order.
C7_LeftOperandBeforeRight ==
    scenario.family = "input_order"
        => /\ stage # "panic"
           /\ stage = "done"
                => LET io == IOEvents(trace)
                   IN  /\ [i \in 1..Len(io) |-> io[i].e]
                            = <<"write", "read", "write", "read", "assign">>
                       /\ io[1].text = <<"x">>
                       /\ io[3].text = <<"y">>
                       /\ io[2].text \o io[4].text \o stdin = scenario.stdin
                       /\ io[2].text = SubSeq(scenario.stdin, 1, LineLength(scenario.stdin))
                       /\ io[5].ident = <<"a">>
                       /\ stdout = <<"x", "y">>

\* with a and b on two lines of standard input, the first read has taken a and
\* the second b
C7_Witness ==
    /\ scenario.family = "input_order"
    /\ scenario.stdin = <<"a", "\n", "b">>
    /\ stage = "done"
    /\ IOEvents(trace)[2].text = <<"a", "\n">>
    /\ IOEvents(trace)[4].text = <<"b">>

\* the first line of standard input, with its newline when it has one
FirstLine(chars) == SubSeq(chars, 1, LineLength(chars))

\* a line with only its trailing newline removed
StripNewline(line) ==
    IF line # <<>> /\ line[Len(line)] = "\n" THEN SubSeq(line, 1, Len(line) - 1)
    ELSE line

\* C8: name = input("prompt") followed by print(name) writes the prompt before
\* it reads, binds name to the text of the entered line with only its trailing
\* newline removed, and echoes exactly that text, for every line standard input
\* can deliver.
C8_InputReturnsEnteredLine ==
    (scenario.family = "echo" /\ stage = "done")
        => LET entered == StripNewline(FirstLine(scenario.stdin))
               io == IOEvents(trace)
           IN  /\ io[1] = [e |-> "write", text |-> prompt]
               /\ io[2].e = "read"
               /\ symbol_table[name] = String(entered)
               /\ stdout = prompt \o entered \o <<"\n">>

\* the statement of an abort scenario, as run_node meets it
AbortNode(sc) == parse(AbortStatements[sc.bad]).n.nodes[1]

\* C9: once evaluation meets a Number combined with a Boolean, or a reference to
\* an identifier that has no binding, the run aborts there: the run is never
\* done, only what was written before (the line a) is ever on standard output,
\* nothing is bound but what was bound before (k), and the abort is at that
\* statement.
C9_TypeErrorAndUnboundAbort ==
    scenario.family = "abort"
        => /\ stage # "done"
           /\ stdout \in {<<>>, <<"a", "\n">>}
           /\ DOMAIN symbol_table \subseteq {<<"k">>}
           /\ \A id \in DOMAIN symbol_table : symbol_table[id] = Number(0)
           /\ stage = "panic" => (todo # <<>> /\ Head(todo) = AbortNode(scenario))
           /\ stage = "run" => \E i \in 1..Len(todo) :
                                  \/ todo[i] = AbortNode(scenario)
                                  \/ todo[i].node \in {"IfExpr", "WhileStmt", "Block"}

\* x = 5 + 1 < 2 has aborted the run after the line a was written
C9_Witness ==
    /\ scenario.family = "abort"
    /\ scenario.bad = "number_boolean"
    /\ scenario.wrap = "top"
    /\ stage = "panic"
    /\ stdout = <<"a", "\n">>
    /\ symbol_table = SymbolTableNew

\* Display of the operand of each type in a concat scenario
OperandText(type) ==
    CASE type = "Number" -> <<"5">>
      [] type = "String" -> <<"s">>
      [] type = "Boolean" -> <<"t", "r", "u", "e">>
      [] type = "Array" -> <<"[", "N", "u", "m", "b", "e", "r", "(", "0", ")", "]">>

\* C10: a BinaryExpr with at least one String operand evaluates to the String
\* display(left) ++ display(right), for every operator and every type of the
\* other operand, on either side: r = <left> <op> <right> never aborts, and binds
\* r to that String.
C10_StringOperandConcatenates ==
    scenario.family = "concat"
        => /\ stage # "panic"
           /\ stage = "done"
                => symbol_table[<<"r">>]
                     = String(OperandText(scenario.left) \o OperandText(scenario.right))

\* what an if_condition scenario is to write: the line t for a true condition,
\* the line e for a false one when there is an else block
IfExpectedOutput(sc) ==
    IF sc.truth THEN <<"t", "\n">> ELSE IF sc.els THEN <<"e", "\n">> ELSE <<>>

\* C11: for an If node whose condition evaluates to Boolean(true) exactly the
\* then block runs, for Boolean(false) exactly the else block, whatever the form
\* of the condition (binary expression, variable bound to a Boolean, bracketed
\* expression): the run does not abort and has written exactly the line of the
\* block chosen when it is done; a condition of any other type aborts the run
\* before anything is written.
C11_IfRunsBlockOfCondition ==
    scenario.family = "if_condition"
        => /\ scenario.form \in BooleanConditions
                => /\ stage # "panic"
                   /\ stage = "done" => stdout = IfExpectedOutput(scenario)
           /\ scenario.form \in OtherConditions
                => /\ stage # "done"
                   /\ stdout = <<>>

\* the comparison op of two Numbers, as mathematics has it
Compare(op, x, y) ==
    CASE op = "Less" -> x < y
      [] op = "LessEqual" -> x <= y
      [] op = "Greater" -> x > y
      [] op = "GreaterEqual" -> x >= y
      [] op = "EqualTo" -> x = y

ArithmeticOps == {"Plus", "Minus", "Multiply", "Divide", "Mod"}

\* C12: for all Numbers x and y, BinaryExpr{x, op, y} evaluates to a Number for
\* each of + - * / % and to the Boolean of the mathematical comparison for
\* < <= > >= ==, also when x < y under Minus, when a sum or product exceeds the
\* range of Num and when y = 0 under Divide or Mod: r = x op y never aborts the
\* run, and binds r to a Number, or to that Boolean.
C12_NumberOperatorsYieldValue ==
    scenario.family = "arithmetic"
        => /\ stage # "panic"
           /\ stage = "done"
                => IF scenario.op \in ArithmeticOps
                   THEN /\ symbol_table[<<"r">>].t = "Number"
                        /\ symbol_table[<<"r">>].v \in 0..(NumModulus - 1)
                   ELSE symbol_table[<<"r">>]
                          = Boolean(Compare(scenario.op, scenario.x, scenario.y))

\* a step of run_node on an Assign or an ArrayAssingIndex leaves every other
\* identifier as it was, bound or unbound, and binds the assigned one unless
\* the run aborts
AssignChangesOnlyTarget ==
    (stage = "run" /\ todo # <<>> /\ Head(todo).node \in {"Assign", "ArrayAssingIndex"})
        => /\ \A id \in (DOMAIN symbol_table \cup DOMAIN symbol_table') \ {Head(todo).ident} :
                /\ id \in DOMAIN symbol_table
                /\ id \in DOMAIN symbol_table'
                /\ symbol_table'[id] = symbol_table[id]
           /\ stage' = "run" => Head(todo).ident \in DOMAIN symbol_table'
           /\ stage' # "run" => symbol_table' = symbol_table

\* after array x[n], y = x, s = 1, x[i] = v, s = 2: y is the array of zeros it
\* was assigned, x has v in slot i and s is 2
AliasKeepsCopy ==
    (scenario.family = "alias" /\ stage = "done")
        => /\ symbol_table[<<"y">>] = Array([j \in 1..scenario.n |-> Number(0)])
           /\ symbol_table[<<"x">>]
                = Array([j \in 1..scenario.n |->
                           Number(IF j = scenario.i + 1 THEN scenario.v ELSE 0)])
           /\ symbol_table[<<"s">>] = Number(2)
           /\ DOMAIN symbol_table = {<<"x">>, <<"y">>, <<"s">>}

\* C13: executing Assign{x, e} or ArrayAssingIndex{x, i, v} changes the binding
\* of x only: it creates the binding of an unbound x or overwrites the one there
\* is, and every other identifier keeps its binding, also an identifier y that
\* was assigned from x before (after y = x, x[i] = v leaves the array of y as
\* it was).
C13_AssignChangesOnlyItsTarget ==
    /\ [][AssignChangesOnlyTarget]_vars
    /\ []AliasKeepsCopy

\* array x[2], y = x, x[0] = 9 have run: y is still two zeros, x is 9, 0
C13_Witness ==
    /\ scenario.family = "alias"
    /\ scenario.n = 2 /\ scenario.i = 0 /\ scenario.v = 9
    /\ stage = "done"
    /\ symbol_table[<<"y">>] = Array(<<Number(0), Number(0)>>)
    /\ symbol_table[<<"x">>] = Array(<<Number(9), Number(0)>>)

\* what each stage leaves behind: a LexerError ends the pipeline before the
\* parser has run; a ParserError ends it before the interpreter has run; the
\* parser has run when there is a tree to interpret
StagesLeave ==
    /\ lerr # NoLexerError
          => /\ stage = "lex_error"
             /\ ast = NoNode /\ perr = NoToken
             /\ todo = <<>> /\ trace = <<>> /\ stdout = <<>>
             /\ symbol_table = SymbolTableNew
    /\ stage = "lex_error" => lerr # NoLexerError
    /\ perr # NoToken
          => /\ stage = "parse_error"
             /\ ast = NoNode
             /\ todo = <<>> /\ trace = <<>> /\ stdout = <<>>
             /\ symbol_table = SymbolTableNew
    /\ stage = "parse_error" => perr # NoToken
    /\ stage \in {"parsed", "run", "done"} => ast.node = "Block"
    /\ (stage \notin {"lex", "lex_error", "panic"} /\ scenario.family \in SourceFamilies)
          => program = lex(LexerNew(source)).tokens

\* the stages follow one another as lex, parse, interpret, and nothing follows
\* an error
StagesInOrder ==
    /\ stage' = "parse" => stage = "lex"
    /\ stage' \in {"parsed", "parse_error"} => stage = "parse"
    /\ stage' = "run" => stage \in {"parsed", "run"}
    /\ stage' = "done" => stage = "run"
    /\ stage \notin {"lex_error", "parse_error"}

\* C14: the pipeline runs lex, parse, interpret in this order and an error
\* returned by a stage stops it: after a LexerError neither the parser nor the
\* interpreter runs, after a ParserError the interpreter does not run, so no
\* statement is executed and nothing is written.
C14_ErrorStopsPipeline ==
    /\ []StagesLeave
    /\ [][StagesInOrder]_vars

\* lex has returned an error after it had pushed a token: the pipeline rests
C14_Witness ==
    /\ scenario.family = "text"
    /\ stage = "lex_error"
    /\ lerr.c = "?"
    /\ tokens # <<>>
    /\ ast = NoNode

\* the symbol of one of the characters = > < + - alone, and followed by '='
OneCharacterSymbol(ch) ==
    CASE ch = "=" -> "Equals" [] ch = ">" -> "Greater" [] ch = "<" -> "Less"
      [] ch = "+" -> "Plus" [] ch = "-" -> "Minus"

TwoCharacterSymbol(ch) ==
    CASE ch = "=" -> "DoubleEquals" [] ch = ">" -> "GreaterEquals"
      [] ch = "<" -> "LessEquals" [] ch = "+" -> "PlusEqual" [] ch = "-" -> "MinusEqual"

\* the symbols, with their lengths, a text of = > < + - and blanks is to lex to
RECURSIVE ExpectedSymbols(_)
ExpectedSymbols(text) ==
    IF text = <<>> THEN <<>>
    ELSE IF Head(text) = " " THEN ExpectedSymbols(Tail(text))
    ELSE IF Len(text) >= 2 /\ text[2] = "="
    THEN <<[kind |-> Symbol(TwoCharacterSymbol(Head(text))), len |-> 2]>>
           \o ExpectedSymbols(Tail(Tail(text)))
    ELSE <<[kind |-> Symbol(OneCharacterSymbol(Head(text))), len |-> 1]>>
           \o ExpectedSymbols(Tail(text))

\* the kinds and lengths of the tokens lex has returned
LexedSymbols == [i \in 1..Len(program) |-> [kind |-> program[i].kind, len |-> program[i].len]]

\* C15: for each of = > < + - the lexer emits the two-character symbol and
\* consumes both characters when the next character is '=', and otherwise the
\* one-character symbol, consuming one character: every text of these
\* characters and blanks lexes without error to exactly those symbols, so
\* `== =` lexes to DoubleEquals, Equals, `>= >` to GreaterEquals, Greater and
\* `<= <` to LessEquals, Less.
C15_TwoCharacterSymbols ==
    ((scenario.family = "symbols"
        \/ (scenario.family = "example" /\ scenario.name \in {"equals", "greater", "less"}))
      /\ stage # "lex")
        => /\ lerr = NoLexerError
           /\ LexedSymbols = ExpectedSymbols(source)

\* `== =` has been lexed to DoubleEquals, Equals
C15_Witness ==
    /\ scenario.family = "example"
    /\ scenario.name = "equals"
    /\ stage # "lex"
    /\ LexedSymbols = <<[kind |-> Symbol("DoubleEquals"), len |-> 2],
                        [kind |-> Symbol("Equals"), len |-> 1]>>

\* the decimal value of a run of digits, acc being the value of those before
RECURSIVE DecimalValue(_, _)
DecimalValue(digits, acc) ==
    IF digits = <<>> THEN acc
    ELSE DecimalValue(Tail(digits), 10 * acc + DigitValue(Head(digits)))

\* the token kinds a text of closed string literals, digits, the letter a,
\* blanks and newlines is to lex to, in source order
RECURSIVE ExpectedKinds(_)
ExpectedKinds(text) ==
    IF text = <<>> THEN <<>>
    ELSE IF Head(text) \in {" ", "\n"} THEN ExpectedKinds(Tail(text))
    ELSE IF Head(text) = "\""
    THEN LET k == CHOOSE j \in 2..Len(text) :
                     text[j] = "\"" /\ \A i \in 2..(j - 1) : text[i] # "\""
         IN  <<StringLit(SubSeq(text, 2, k - 1))>>
               \o ExpectedKinds(SubSeq(text, k + 1, Len(text)))
    ELSE IF Head(text) = "9"
    THEN LET k == CHOOSE j \in 1..Len(text) :
                     /\ \A i \in 1..j : text[i] = "9"
                     /\ j = Len(text) \/ text[j + 1] # "9"
         IN  <<NumberLit(DecimalValue(SubSeq(text, 1, k), 0))>>
               \o ExpectedKinds(SubSeq(text, k + 1, Len(text)))
    ELSE LET k == CHOOSE j \in 1..Len(text) :
                     /\ \A i \in 1..j : text[i] \in {"a", "9"}
                     /\ j = Len(text) \/ text[j + 1] \notin {"a", "9"}
         IN  <<Ident(SubSeq(text, 1, k))>>
               \o ExpectedKinds(SubSeq(text, k + 1, Len(text)))

\* the number of quotes in a text
RECURSIVE Quotes(_)
Quotes(text) ==
    IF text = <<>> THEN 0
    ELSE (IF Head(text) = "\"" THEN 1 ELSE 0) + Quotes(Tail(text))

\* a text in which every string literal is closed and no character is
\* unrecognised outside a literal
ClosedLiterals(text) ==
    /\ Quotes(text) % 2 = 0
    /\ \A i \in 1..Len(text) :
          text[i] = "?" => Quotes(SubSeq(text, 1, i)) % 2 = 1

LexedKinds == [i \in 1..Len(program) |-> program[i].kind]

\* C16: a string literal that has a closing quote lexes to one String token
\* holding exactly the characters between the quotes, a maximal run of digits
\* lexes to one Number token holding its decimal value, and the tokens after
\* them are lexed normally and in source order: every text of closed literals,
\* digits, letters and blanks lexes without error to the kinds a left-to-right
\* scan expects, and `"this is a test string" + 7` lexes to the String, Plus,
\* Number(7).
C16_LiteralsLexToOneToken ==
    /\ (scenario.family = "text" /\ ClosedLiterals(source) /\ stage # "lex")
           => /\ lerr = NoLexerError
              /\ LexedKinds = ExpectedKinds(source)
    /\ (scenario.family = "example" /\ scenario.name = "string" /\ stage # "lex")
           => LexedKinds = <<StringLit(SubSeq(source, 2, 22)), Symbol("Plus"), NumberLit(7)>>

\* the place of the last quote of a text that has one
LastQuote(text) == CHOOSE q \in 1..Len(text) :
                      text[q] = "\"" /\ \A i \in (q + 1)..Len(text) : text[i] # "\""

\* a text that ends in a string literal with no closing quote, after text that
\* lexes without error
Unterminated(text) ==
    /\ Quotes(text) % 2 = 1
    /\ ClosedLiterals(SubSeq(text, 1, LastQuote(text) - 1))

\* C17: a string literal with no closing quote runs to the end of the input
\* without error: for every text with an opening quote and no later quote,
\* lex returns Ok and the last token is a String token holding all characters
\* after the opening quote.
C17_UnterminatedStringRunsToEnd ==
    (scenario.family = "text" /\ Unterminated(source) /\ stage # "lex")
        => /\ lerr = NoLexerError
           /\ program # <<>>
           /\ program[Len(program)].kind
                = StringLit(SubSeq(source, LastQuote(source) + 1, Len(source)))

\* the place of the first character of a text that is outside lex's arms
FirstUnrecognised(text) ==
    CHOOSE u \in 1..Len(text) : text[u] = "?" /\ \A i \in 1..(u - 1) : text[i] # "?"

\* the line of place u of a text, the first line being 1, and its column, the
\* first column being 1
LineOf(text, u) == 1 + Cardinality({i \in 1..(u - 1) : text[i] = "\n"})

ColumnOf(text, u) ==
    u - (IF \E i \in 1..(u - 1) : text[i] = "\n"
         THEN CHOOSE i \in 1..(u - 1) :
                 text[i] = "\n" /\ \A j \in (i + 1)..(u - 1) : text[j] # "\n"
         ELSE 0)

\* C18: for every text whose first character outside the recognised set is c,
\* lex returns Err(UnrecognisedCharacter(c, p, source)), p being the line and
\* column of that occurrence of c and source the whole text, and lexing stops
\* there: the token list holds the tokens of the text before c and no others.
C18_UnrecognisedCharacterStopsLex ==
    (scenario.family = "text" /\ (\E i \in 1..Len(source) : source[i] = "?")
       /\ stage # "lex")
        => LET u == FirstUnrecognised(source)
           IN  /\ stage = "lex_error"
               /\ lerr = UnrecognisedCharacter("?", Position(LineOf(source, u),
                                                              ColumnOf(source, u)),
                                                source)
               /\ [i \in 1..Len(tokens) |-> tokens[i].kind]
                    = ExpectedKinds(SubSeq(source, 1, u - 1))

\* C19: whenever a block, the top-level one or one nested in an if or a while,
\* meets at the start of a statement a token that is no identifier and none of
\* array, if, while, endif, endwhile, else, parse returns
\* Err(InvalidTokenInBlock(token, source_text)) with that token, as a value and
\* without aborting.
C19_InvalidTokenIsReturned ==
    (scenario.family = "invalid_token" /\ stage # "parse")
        => /\ stage = "parse_error"
           /\ perr = scenario.bad

\* the place in its text of each token lex pushes, and the number of
\* characters lex takes for it
RECURSIVE TokenSpans(_)
TokenSpans(lx) ==
    IF lx.res # "Ok" \/ lx.input = <<>> THEN <<>>
    ELSE The({ (IF Len(next.tokens) > Len(lx.tokens)
                THEN <<[place |-> Len(lx.input_og) - Len(lx.input) + 1,
                        len |-> Len(lx.input) - Len(next.input)]>>
                ELSE <<>>) \o TokenSpans(next)
               : next \in {lex_match(peek_char(lx), panic_pop(lx))} })

\* the place in the text of the character lex returned its error at
OffendingPlace == Len(source) - Len(lex(LexerNew(source)).input)

\* the span of the token parse returned its error with
OffendingSpan ==
    TokenSpans(LexerNew(source))[CHOOSE k \in 1..Len(program) :
                                    program[k] = perr /\ \A j \in 1..(k - 1) : program[j] # perr]

\* the last line of the diagnostic and the line above it
PointerLine == lines(diagnostic)[Len(lines(diagnostic))]

ExcerptLine == lines(diagnostic)[Len(lines(diagnostic)) - 1]

\* the width of the margin "n | " of a line of the diagnostic
Margin(shown) == 1 + CHOOSE i \in 1..Len(shown) :
                         shown[i] = "|" /\ \A j \in 1..(i - 1) : shown[j] # "|"

\* the columns of the excerpt that have a caret under them, the first column
\* being 1
Underlined ==
    {i - Margin(PointerLine) : i \in {j \in 1..Len(PointerLine) : PointerLine[j] = "^"}}

\* the diagnostic shows the line of place u of the source under its number
\* and has carets under the len columns from place u on, and nowhere else
Underlines(u, len) ==
    /\ ExcerptLine = DecimalString(LineOf(source, u)) \o <<" ", "|", " ">>
                       \o lines(source)[LineOf(source, u)]
    /\ Underlined = ColumnOf(source, u)..(ColumnOf(source, u) + len - 1)

\* C20: the rendered diagnostic underlines exactly the offending span: for a
\* LexerError one caret lies under the offending character; for a ParserError
\* the carets start under the first character of the offending token and are
\* as many as the token has characters, at every column and for every kind of
\* token.
C20_CaretsUnderOffendingSpan ==
    /\ stage = "lex_error" => Underlines(OffendingPlace, 1)
    /\ (stage = "parse_error" /\ scenario.family \in SourceFamilies)
          => Underlines(OffendingSpan.place, OffendingSpan.len)

\* C21: whenever parse returns Ok, every token of the input has been consumed
\* into the returned tree: no suffix of the token sequence is left unparsed,
\* also when endif, endwhile or else stands at the start of a statement of the
\* top-level block.
C21_ParseOkConsumesEveryToken ==
    (stage \in {"parsed", "run", "done"} /\ scenario.family \notin TreeFamilies)
        => tokens = <<>>

\* C22: each of the ten operators + - * / % > >= < <= == is derived from its
\* own symbol token: for every one of them x op y parses to
\* BinaryExpr{x, op, y} with that operator, Mod for % included.
C22_EveryOperatorParses ==
    (scenario.family = "operator" /\ stage \notin {"lex", "parse"})
        => /\ stage \in {"parsed", "run", "done"}
           /\ ast = Block(<<Assign(<<"a">>,
                                   BinaryExpr(Primary(Number(7)), scenario.op,
                                              Primary(Number(2))))>>)

\* C23: in every symbol table reached by running a program that lexes and
\* parses successfully, no element of an Array value is itself an Array.
C23_NoArrayInsideArray ==
    \A ident \in DOMAIN symbol_table :
        symbol_table[ident].t = "Array"
            => \A k \in 1..Len(symbol_table[ident].v) :
                   symbol_table[ident].v[k].t # "Array"

\* C25: parsing an array declaration consumes the array keyword, the
\* identifier, the opening [ and the size expression and nothing more: no
\* closing ] is required or consumed, so array arr [ 3 at the end of the input
\* parses to the declaration of arr with size 3, and the token after the size
\* expression is left for the next statement.
C25_ArrayDeclarationStopsAfterSize ==
    (scenario.family = "array_decl" /\ stage # "parse")
        => /\ \E r \in {parse_array(ParserNew(program))} :
                  /\ r.p.ok
                  /\ r.n = ArrayAssign(arr, Primary(Number(3)))
                  /\ r.p.ts = ArrayDeclFollowers[scenario.after]
           /\ (scenario.after = "end" /\ stage # "parse")
                  => /\ stage \in {"parsed", "run", "done"}
                     /\ ast = Block(<<ArrayAssign(arr, Primary(Number(3)))>>)

\* C25 as the code has it: parse_array consumes the array keyword, the
\* identifier, the opening [, the size expression and then one more token of
\* whatever kind.  array arr [ 3 ] parses to the declaration of arr with size
\* 3 and nothing is left; array arr [ 3 at the end of the input aborts; with a
\* statement in place of the closing bracket the first token of that statement
\* is consumed and the next one is an invalid start of a statement.
C25_ArrayDeclarationTakesOneMoreToken ==
    (scenario.family = "array_decl" /\ stage # "parse")
        => /\ \E r \in {parse_array(ParserNew(program))} :
                  IF scenario.after = "end" THEN ~r.p.ok
                  ELSE /\ r.p.ok
                       /\ r.n = ArrayAssign(arr, Primary(Number(3)))
                       /\ r.p.ts = Tail(ArrayDeclFollowers[scenario.after])
           /\ scenario.after = "end" => stage = "panic"
           /\ scenario.after = "bracket"
                  => /\ stage \in {"parsed", "run", "done"}
                     /\ tokens = <<>>
                     /\ ast = Block(<<ArrayAssign(arr, Primary(Number(3)))>>)
           /\ scenario.after = "statement"
                  => stage = "parse_error" /\ IsSymbol(perr, "LeftBracket")
           /\ scenario.after = "bracket_statement"
                  => /\ stage \in {"parsed", "run", "done"}
                     /\ ast = Block(<<ArrayAssign(arr, Primary(Number(3))),
                                      FuncCall(print, <<Primary(String(<<"a">>))>>)>>)

\* array arr [ 3 ] has been parsed and run: arr holds three zeros
C25_Witness ==
    /\ scenario.family = "array_decl"
    /\ scenario.after = "bracket"
    /\ stage = "done"
    /\ symbol_table[arr] = Array(<<Number(0), Number(0), Number(0)>>)

\* run_node on an index assignment to an array either aborts and leaves the
\* symbol table as it was, or leaves the array with the length it had
IndexAssignKeepsLength ==
    (/\ stage = "run" /\ todo # <<>> /\ Head(todo).node = "ArrayAssingIndex"
     /\ Head(todo).ident \in DOMAIN symbol_table
     /\ symbol_table[Head(todo).ident].t = "Array")
        => IF stage' = "panic" THEN symbol_table' = symbol_table
           ELSE /\ symbol_table'[Head(todo).ident].t = "Array"
                /\ Len(symbol_table'[Head(todo).ident].v)
                     = Len(symbol_table[Head(todo).ident].v)

\* the symbol table after array arr[n], arr[0] = 7, x = 5
BeforeIndexed(n) ==
    [ident \in {arr, <<"x">>} |->
        IF ident = arr THEN Array([k \in 1..n |-> Number(IF k = 1 THEN 7 ELSE 0)])
        ELSE Number(5)]

\* an index that is not below the length ends the run at the statement that
\* uses it, with the symbol table of before that statement and the statement
\* after it not run; an index below the length does not end the run
OutOfRangeAborts ==
    scenario.family = "out_of_range"
        => /\ stage = "done" => scenario.i < scenario.n
           /\ stage = "panic"
                 => /\ scenario.i >= scenario.n
                    /\ symbol_table = BeforeIndexed(scenario.n)
                    /\ stdout = <<>>
           /\ (stage = "run" /\ scenario.i >= scenario.n)
                 => Len(todo) >= 2
           /\ stage \in {"run", "done"}
                 => \A ident \in DOMAIN symbol_table :
                        symbol_table[ident].t = "Array"
                            => Len(symbol_table[ident].v) = scenario.n

\* C24: an array reference a[i] or an index assignment a[i] = v whose index is
\* not below the array's length is a fatal runtime error, and at the abort the
\* symbol table is the one of before the statement: the array is neither grown
\* nor partly written; an index assignment with an index in range never
\* changes the array's length.
C24_OutOfRangeIndexAborts ==
    /\ [][IndexAssignKeepsLength]_vars
    /\ []OutOfRangeAborts

\* arr[i] = 9 with i not below the length has aborted the run
C24_Witness ==
    /\ scenario.family = "out_of_range"
    /\ scenario.use = "assign"
    /\ scenario.i >= scenario.n
    /\ stage = "panic"
    /\ symbol_table = BeforeIndexed(scenario.n)

\* C26: for every one of the eight operator characters = < > + - * / % and
\* every character that can follow it, lex emits a symbol token and returns
\* normally; for *, / and % followed by '=' it does not abort.
C26_OperatorCharacterLexes ==
    (scenario.family = "symbol_pair" /\ stage # "lex")
        => /\ stage \in {"parse", "parse_error"}
           /\ program # <<>>
           /\ program[1].kind.t = "Symbol"

\* the kinds of node run_node has an arm for
ExecutedKinds ==
    {"FuncCall", "Assign", "ArrayAssign", "ArrayAssingIndex", "IfExpr", "WhileStmt", "Block"}

\* C27: every node a successful parse places directly inside a Block is of a
\* kind the interpreter executes as a statement: running a tree returned by
\* parse never aborts because of the kind of a statement node, a dot
\* expression a.length as a statement included.
C27_BlockNodesAreExecutable ==
    scenario.family \notin TreeFamilies
        => /\ (stage \in {"parsed", "run", "done"} /\ ast.node = "Block")
                 => \A i \in 1..Len(ast.nodes) : ast.nodes[i].node \in ExecutedKinds
           /\ (stage = "run" /\ todo # <<>>)
                 => Head(todo).node \in ExecutedKinds \cup {"WhileLoop"}

\* the number of line feeds and carriage returns before place u of a text
BreaksBefore(text, u) == Cardinality({i \in 1..(u - 1) : text[i] \in {"\n", "\r"}})

\* C28: for every source that lexes successfully, every token's start.line is
\* 1 plus the number of line feeds and carriage returns before the token's
\* first character, also when a string literal contains a line feed.
C28_TokenLineCountsBreaks ==
    (scenario.family \in SourceFamilies /\ stage \notin {"lex", "lex_error"}
       /\ lex(LexerNew(source)).res = "Ok")
        => \A k \in 1..Len(program) :
               program[k].start.line
                 = 1 + BreaksBefore(source, TokenSpans(LexerNew(source))[k].place)

\* C29: for every token of a successful lex, len is the number of source
\* characters the token was lexed from: 1 or 2 for symbols, the number of
\* digits for numbers, the number of characters of the name for identifiers
\* and keywords, and the content length plus the two quotes for string
\* literals.
C29_TokenLenCountsCharacters ==
    (scenario.family \in SourceFamilies /\ stage \notin {"lex", "lex_error"}
       /\ lex(LexerNew(source)).res = "Ok")
        => \A k \in 1..Len(program) :
               program[k].len = TokenSpans(LexerNew(source))[k].len

\* the token of a run of letters, digits and underscores: the keyword the
\* whole run is the text of, and else the identifier of that name
ExpectedWord(run) ==
    IF \E k \in DOMAIN KeywordTexts \ {"Then"} : KeywordTexts[k] = run
    THEN Keyword(CHOOSE k \in DOMAIN KeywordTexts \ {"Then"} : KeywordTexts[k] = run)
    ELSE Ident(run)

\* the run of a word scenario lexes to one token, the expected one, and the
\* character after the run to its own token
WordLexes ==
    (scenario.family = "word" /\ stage # "lex")
        => /\ Len(program) = (IF scenario.next = <<"(">> THEN 2 ELSE 1)
           /\ program[1].kind = ExpectedWord(WordRun(scenario))
           /\ program[1].start = Position(1, 0)

\* no token is the keyword then
NoThenKeyword ==
    \A k \in 1..Len(program) : ~IsKeyword(program[k], "Then")

\* C30: a maximal run of letters, digits and underscores that starts with a
\* letter or an underscore becomes a keyword token exactly when the whole run
\* is one of do, while, endwhile, if, else, endif, break, array, and an
\* identifier token otherwise; lex never emits a then keyword, so then lexes
\* as the identifier "then".
C30_KeywordsAndIdentifiers ==
    /\ WordLexes
    /\ scenario.family \in SourceFamilies => NoThenKeyword

\* then, followed by a bracket, has been lexed as an identifier
C30_Witness ==
    /\ scenario.family = "word"
    /\ stage # "lex"
    /\ WordRun(scenario) = KeywordTexts["Then"]
    /\ scenario.next = <<"(">>
    /\ program[1].kind = Ident(<<"t", "h", "e", "n">>)
    /\ IsSymbol(program[2], "LeftBracket")

====
